---- MODULE Spec2Model ----
(***************************************************************************)
(* Sale processing and tenant scoping of the rh-pos backend.               *)
(*                                                                         *)
(* The store is MySQL/InnoDB reached through gorm.  The committed tables   *)
(* are `tenants`, `users`, `products` and `transactions` (with their       *)
(* items).  A request runs on its own goroutine (a process of Procs).      *)
(* CreateTransaction opens a database transaction `tx`; the writes it      *)
(* issues through `tx` are staged in the call's writes and row and become  *)
(* visible at commit, while the reads it issues through the repositories   *)
(* go through the pool handle and see the committed tables.  An UPDATE     *)
(* through `tx` holds the row lock of the product until the transaction    *)
(* ends.  Every other repository call is one statement on the pool handle, *)
(* committed on its own; a service call that makes several of them is      *)
(* several steps, and other requests run between them.                     *)
(*                                                                         *)
(* The migrations leave every table empty (the seed INSERT of migration    *)
(* 002 names a column its table does not have yet), so a behaviour starts  *)
(* with the administrator creating the first tenant and that tenant        *)
(* entering its products; the requests of a specification follow.          *)
(*                                                                         *)
(* Money: the columns are DECIMAL(10,2) and are kept as their number of    *)
(* hundredths; the Go code computes on float64, which is modelled digit    *)
(* for digit (round to nearest even).  Request fields are fixed by the     *)
(* caller before the call; the model draws each one at the step where the  *)
(* code first reads it.                                                    *)
(***************************************************************************)
EXTENDS Integers, Sequences, FiniteSets, TLC

\* ---------------------------------------------------------------- bounds
NumProcs == 2
MaxTx == 2
MaxItems == 2
MaxProductOps == 1
MaxCatalogOps == 2
MaxTokens == 1
MaxHashedId == 150
MaxDates == 2
MaxPage == 3
MaxFailedInserts == 1

\* ------------------------------------------------------------- constants
Null == 0
NoTenant == 0
Tenants == {1, 2}
Scopes == Tenants \cup {NoTenant}
Procs == 1..NumProcs
MaxListLimit == 100
DefaultListLimit == 10
DefaultSqlMode == "ONLY_FULL_GROUP_BY"

\* the price list the shop enters through POST /api/products when it opens: the
\* first rows of the list in 002_create_products_table.sql lines 20-21;
\* harga_jual in hundredths
Catalogue ==
    <<[sku |-> "NAS001", harga_jual |-> 1200000, stock |-> 50],
      [sku |-> "AYM001", harga_jual |-> 2000000, stock |-> 30]>>

\* the requests of the model: the products a request names (the two of the price
\* list, the id the next created product gets and an id no row has), quantities
\* (one unit, the whole stock of NAS001), discounts in hundredths of a percent,
\* new prices in hundredths, new stocks, SKUs, user names and passwords
ProductIds == {1, 2}
NewProductId == Len(Catalogue) + 1
MissingProductId == Len(Catalogue) + MaxCatalogOps + 1
Quantities == {1, 50}
Discounts == {0 - 5000, 0, 3300, 1250}
Prices == {1500000, 999999}
Stocks == {1, 50}
Skus == {"NAS001", "AYM001", "KOP001"}
Usernames == {"admin", "kasir"}
Passwords == {<<"admin123">>, <<"changed">>}
UserIds == {1, 2}
Lines == [product_id : {1, MissingProductId}, quantity : Quantities]

\* time in seconds; a date is a day number and stands for that day's midnight,
\* as time.Parse("2006-01-02", ...) returns it; created_at is a MySQL timestamp
\* column and holds whole seconds
Hour == 3600
Minute == 60
Day == 24 * Hour
Midnight(date) == date * Day

VARIABLES
    tenants,        \* table tenants: the ids of its rows
    nextTenantID,   \* AUTO_INCREMENT of tenants.id
    products,       \* table products: id -> [tenant_id, stock, harga_jual, sku], and the
                    \* history field createdUnder: the tenant the row was created for
    nextProductID,  \* AUTO_INCREMENT of products.id
    transactions,   \* table transactions with their transaction_items, in commit order
    nextID,         \* AUTO_INCREMENT of transactions.id
    nextItemID,     \* AUTO_INCREMENT of transaction_items.id
    users,          \* table users: id -> [username, password, tenant_id], and the
                    \* history field createdUnder: the tenant the row was created with
    nextUserID,     \* AUTO_INCREMENT of users.id
    tokens,         \* the JWTs issued so far: [user_id, tenant_id] claims
    sqlMode,        \* the sql_mode of the MySQL server
    call,           \* the request each goroutine is serving and its locals
    productOps,     \* number of product, user and repository operations started
    lastRead        \* response of the get, list or repository call being answered

catalog == <<products, nextProductID>>
sales == <<transactions, nextID, nextItemID>>
accounts == <<tenants, nextTenantID, users, nextUserID, tokens>>
vars == <<tenants, nextTenantID, products, nextProductID, transactions, nextID,
          nextItemID, users, nextUserID, tokens, sqlMode, call, productOps, lastRead>>

\* ---------------------------------------------------------------- float64
\* A natural number of any size is the sequence of its digits in base 2^15,
\* least significant first, without leading zeros; the products and the
\* remainders of the digit operations stay inside the machine integers.
LimbBits == 15
Base == 2^LimbBits

RECURSIVE Limbs(_)
Limbs(n) == IF n = 0 THEN <<>> ELSE <<n % Base>> \o Limbs(n \div Base)

\* the number of a sequence of at most two digits
Value(a) ==
    IF a = <<>> THEN 0 ELSE IF Len(a) = 1 THEN a[1] ELSE a[1] + Base * a[2]

RECURSIVE Trim(_)
Trim(a) ==
    IF a = <<>> THEN <<>>
    ELSE IF a[Len(a)] = 0 THEN Trim(SubSeq(a, 1, Len(a) - 1)) ELSE a

Limb(a, i) == IF i >= 1 /\ i <= Len(a) THEN a[i] ELSE 0

RECURSIVE AddFrom(_, _, _, _)
AddFrom(a, b, i, carry) ==
    IF i > Len(a) /\ i > Len(b) THEN (IF carry = 1 THEN <<1>> ELSE <<>>)
    ELSE <<(Limb(a, i) + Limb(b, i) + carry) % Base>>
         \o AddFrom(a, b, i + 1, (Limb(a, i) + Limb(b, i) + carry) \div Base)
Add(a, b) == AddFrom(a, b, 1, 0)

\* a - b for a >= b
RECURSIVE SubFrom(_, _, _, _)
SubFrom(a, b, i, borrow) ==
    IF i > Len(a) THEN <<>>
    ELSE <<(Base + Limb(a, i) - Limb(b, i) - borrow) % Base>>
         \o SubFrom(a, b, i + 1, IF Limb(a, i) - Limb(b, i) - borrow < 0 THEN 1 ELSE 0)
Sub(a, b) == Trim(SubFrom(a, b, 1, 0))

RECURSIVE LessFrom(_, _, _)
LessFrom(a, b, i) ==
    IF i = 0 THEN FALSE
    ELSE IF a[i] # b[i] THEN a[i] < b[i] ELSE LessFrom(a, b, i - 1)
Less(a, b) ==
    IF Len(a) # Len(b) THEN Len(a) < Len(b) ELSE LessFrom(a, b, Len(a))

\* a * k for a digit-sized k
RECURSIVE MulSmallFrom(_, _, _, _)
MulSmallFrom(a, k, i, carry) ==
    IF i > Len(a) THEN Limbs(carry)
    ELSE <<(a[i] * k + carry) % Base>>
         \o MulSmallFrom(a, k, i + 1, (a[i] * k + carry) \div Base)
MulSmall(a, k) == IF k = 0 \/ a = <<>> THEN <<>> ELSE MulSmallFrom(a, k, 1, 0)

ShlLimbs(a, k) == IF a = <<>> \/ k <= 0 THEN a ELSE [i \in 1..k |-> 0] \o a

RECURSIVE MulFrom(_, _, _)
MulFrom(a, b, i) ==
    IF i > Len(b) THEN <<>>
    ELSE Add(ShlLimbs(MulSmall(a, b[i]), i - 1), MulFrom(a, b, i + 1))
Mul(a, b) == MulFrom(a, b, 1)

\* quotient and remainder of a by a digit-sized d, digit by digit from the top
RECURSIVE DivSmallFrom(_, _, _, _)
DivSmallFrom(a, d, i, r) ==
    IF i = 0 THEN [q |-> <<>>, r |-> r]
    ELSE LET Step(digit, rest) == [q |-> rest.q \o <<digit>>, r |-> rest.r]
         IN  Step((r * Base + a[i]) \div d,
                  DivSmallFrom(a, d, i - 1, (r * Base + a[i]) % d))
DivSmall(a, d) ==
    LET Trimmed(x) == [q |-> Trim(x.q), r |-> x.r] IN Trimmed(DivSmallFrom(a, d, Len(a), 0))

\* the number of binary digits of a digit, and of a number
DigitLength(v) == CHOOSE k \in 0..LimbBits : v < 2^k /\ (k = 0 \/ v >= 2^(k - 1))
BitLength(a) == IF a = <<>> THEN 0 ELSE LimbBits * (Len(a) - 1) + DigitLength(a[Len(a)])

\* a * 2^s, and the whole part and the remainder of a / 2^s
Shl(a, s) == IF s <= 0 THEN a ELSE MulSmall(ShlLimbs(a, s \div LimbBits), 2^(s % LimbBits))
Shr(a, s) ==
    IF s <= 0 THEN a
    ELSE IF s \div LimbBits >= Len(a) THEN <<>>
    ELSE DivSmall(SubSeq(a, s \div LimbBits + 1, Len(a)), 2^(s % LimbBits)).q
LowBits(a, s) ==
    IF s <= 0 THEN <<>>
    ELSE Trim([i \in 1..Len(a) |->
                 IF i <= s \div LimbBits THEN a[i]
                 ELSE IF i = s \div LimbBits + 1 THEN a[i] % 2^(s % LimbBits)
                 ELSE 0])
\* binary digit i of a, the lowest being digit 1
Bit(a, i) ==
    IF i < 1 THEN 0
    ELSE (Limb(a, (i - 1) \div LimbBits + 1) \div 2^((i - 1) % LimbBits)) % 2

\* A float64 is sign, odd mantissa m and exponent e: the value (+/-) m * 2^e.
\* Zero has the empty mantissa.  The values of the model are far from the ends of
\* the exponent range, so every result is a normal number.
Mantissa == 53
Zero == [neg |-> FALSE, m |-> <<>>, e |-> 0]

TrailingZeros(a) ==
    LET first == CHOOSE i \in 1..Len(a) : a[i] # 0 /\ \A j \in 1..(i - 1) : a[j] = 0
    IN  LimbBits * (first - 1)
        + (CHOOSE k \in 0..(LimbBits - 1) : a[first] % 2^k = 0 /\ (a[first] \div 2^k) % 2 = 1)

Canonical(neg, m, e) ==
    IF m = <<>> THEN Zero
    ELSE [neg |-> neg, m |-> Shr(m, TrailingZeros(m)), e |-> e + TrailingZeros(m)]

\* round to nearest, ties to even: n * 2^e, plus a positive amount below one unit
\* of n when sticky
RoundToEven(neg, n, e, sticky) ==
    IF BitLength(n) <= Mantissa THEN Canonical(neg, n, e)
    ELSE LET drop == BitLength(n) - Mantissa
             Rounded(kept) ==
                 IF Bit(n, drop) = 1
                    /\ (sticky \/ LowBits(n, drop - 1) # <<>> \/ kept[1] % 2 = 1)
                 THEN Add(kept, <<1>>) ELSE kept
         IN  Canonical(neg, Rounded(Shr(n, drop)), e + drop)

\* float64(n) of an int
Float(n) == IF n < 0 THEN Canonical(TRUE, Limbs(0 - n), 0) ELSE Canonical(FALSE, Limbs(n), 0)

FNeg(x) == IF x.m = <<>> THEN x ELSE [x EXCEPT !.neg = ~x.neg]

FMul(x, y) ==
    IF x.m = <<>> \/ y.m = <<>> THEN Zero
    ELSE RoundToEven(x.neg # y.neg, Mul(x.m, y.m), x.e + y.e, FALSE)

FAdd(x, y) ==
    IF x.m = <<>> THEN y
    ELSE IF y.m = <<>> THEN x
    ELSE LET e == IF x.e < y.e THEN x.e ELSE y.e
             Sum(a, b) ==
                 IF x.neg = y.neg THEN RoundToEven(x.neg, Add(a, b), e, FALSE)
                 ELSE IF a = b THEN Zero
                 ELSE IF Less(a, b) THEN RoundToEven(y.neg, Sub(b, a), e, FALSE)
                 ELSE RoundToEven(x.neg, Sub(a, b), e, FALSE)
         IN  Sum(Shl(x.m, x.e - e), Shl(y.m, y.e - e))

FSub(x, y) == FAdd(x, FNeg(y))

\* x / y for a divisor whose mantissa is digit-sized
FDiv(x, y) ==
    IF x.m = <<>> THEN Zero
    ELSE LET shift == Mantissa + 3 + LimbBits
             Quot(d) == RoundToEven(x.neg # y.neg, d.q, x.e - y.e - shift, d.r # 0)
         IN  Quot(DivSmall(Shl(x.m, shift), Value(y.m)))

FLess(x, y) ==
    IF x = y THEN FALSE
    ELSE IF x.m = <<>> THEN ~y.neg
    ELSE IF y.m = <<>> THEN x.neg
    ELSE IF x.neg # y.neg THEN x.neg
    ELSE LET e == IF x.e < y.e THEN x.e ELSE y.e
             Below(a, b) == IF x.neg THEN Less(b, a) ELSE Less(a, b)
         IN  Below(Shl(x.m, x.e - e), Shl(y.m, y.e - e))

Positive(x) == x.m # <<>> /\ ~x.neg

\* A DECIMAL(10,2) value is its number of hundredths.  The float64 nearest to it,
\* as strconv.ParseFloat gives for the column's text.
FromDecimal(h) == FDiv(Float(h), Float(100))

\* The DECIMAL(10,2) a float64 parameter is stored as: MySQL takes the shortest
\* decimal text that reads back as the float64 and rounds it to two places, half
\* away from zero.  The shortest text differs from the exact value in the
\* rounding only when it is a tie k.kk5 the float64 lies just below.
ToDecimal(x) ==
    IF x.m = <<>> THEN 0
    ELSE LET Signed(h) == IF x.neg THEN 0 - h ELSE h
             Rounded(n) ==
                 IF x.e >= 0 THEN Value(Shl(n, x.e))
                 ELSE LET floor == Value(Shr(n, 0 - x.e))
                      IN  IF Bit(n, 0 - x.e) = 1 THEN floor + 1
                          ELSE IF FDiv(Canonical(FALSE, Add(MulSmall(Limbs(floor), 10), <<5>>), 0),
                                       Float(1000))
                                    = [x EXCEPT !.neg = FALSE]
                               THEN floor + 1
                          ELSE floor
         IN  Signed(Rounded(MulSmall(x.m, 100)))

\* ------------------------------------------------------------- helpers
NoRow == [id |-> 0]
NoProduct == [id |-> 0, tenant_id |-> Null, stock |-> 0, harga_jual |-> Zero, sku |-> ""]
NoUser == [id |-> 0, username |-> "", password |-> <<>>, tenant_id |-> Null]
EmptyWrites == [k \in {} |-> 0]
NoLine == [product_id |-> 0, quantity |-> 0, stock |-> 0, n |-> 0]
NoRead == [op |-> "none", tenant |-> NoTenant, ids |-> <<>>, total |-> 0, err |-> "none"]

InTx == {"loop", "update", "create", "create_items", "commit"}

\* sum of price * quantity over the items of a stored transaction, in hundredths
RECURSIVE SumItems(_)
SumItems(its) ==
    IF its = <<>> THEN 0
    ELSE Head(its).price * Head(its).quantity + SumItems(Tail(its))

RECURSIVE QuantityOf(_, _)
QuantityOf(its, id) ==
    IF its = <<>> THEN 0
    ELSE (IF Head(its).product_id = id THEN Head(its).quantity ELSE 0)
         + QuantityOf(Tail(its), id)

\* ids of a set in ascending order (the order of the primary key)
RECURSIVE SortedIds(_)
SortedIds(S) ==
    IF S = {} THEN <<>>
    ELSE LET m == CHOOSE x \in S : \A y \in S : x <= y
         IN <<m>> \o SortedIds(S \ {m})

\* A SELECT without ORDER BY returns the rows in an order the statement does not
\* fix (InnoDB reads them along the index it picks): every order of the ids
RECURSIVE Orderings(_)
Orderings(S) ==
    IF S = {} THEN {<<>>}
    ELSE UNION {{<<x>> \o rest : rest \in Orderings(S \ {x})} : x \in S}

\* OFFSET (page - 1) * limit LIMIT limit
PageOf(ids, page, limit) ==
    LET offset == (page - 1) * limit
        last == IF offset + limit < Len(ids) THEN offset + limit ELSE Len(ids)
    IN SubSeq(ids, offset + 1, last)

\* product_service.go 46-52 and transaction_service.go 135-141
ClampPage(page) == IF page < 1 THEN 1 ELSE page
ClampLimitUnbounded(limit) == IF limit < 1 THEN DefaultListLimit ELSE limit
ClampLimit(limit) == IF limit < 1 \/ limit > MaxListLimit THEN DefaultListLimit ELSE limit

\* ---------------------------------------------------- product repository
\* productRepository.GetByID / List: tenant filter of the query
ProductVisibleNoFilter(tenant, row) == TRUE
ProductVisible(tenant, row) ==
    IF tenant # NoTenant THEN row.tenant_id # Null /\ row.tenant_id = tenant
    ELSE row.tenant_id = Null

\* the entity gorm scans a row into: harga_jual becomes a float64
Scan(id, row) ==
    [id |-> id, tenant_id |-> row.tenant_id, stock |-> row.stock,
     harga_jual |-> FromDecimal(row.harga_jual), sku |-> row.sku]

ProductGetByIDAnyTenant(tenant, id) ==
    IF id \in DOMAIN products THEN Scan(id, products[id]) ELSE NoProduct
ProductGetByID(tenant, id) ==
    IF id \in DOMAIN products /\ ProductVisible(tenant, products[id])
    THEN Scan(id, products[id])
    ELSE NoProduct

\* productRepository.List line 104: SELECT count(*) under the tenant filter
ProductCount(tenant) ==
    Cardinality({id \in DOMAIN products : ProductVisible(tenant, products[id])})
\* productRepository.List line 111: the pages the SELECT ... LIMIT ? OFFSET ? of
\* the same filter can return
ProductFind(tenant, page, limit) ==
    {PageOf(ids, page, limit) :
        ids \in Orderings({id \in DOMAIN products : ProductVisible(tenant, products[id])})}

\* ------------------------------------------------ transaction repository
\* transactionRepository.GetByID / List: WHERE tenant_id = ctx.Value("tenant_id")
TransactionVisibleNoFilter(tenant, row) == TRUE
TransactionVisible(tenant, row) ==
    tenant # NoTenant /\ row.tenant_id # Null /\ row.tenant_id = tenant

TransactionGetByID(tenant, id) ==
    {t \in {transactions[i] : i \in 1..Len(transactions)} :
        t.id = id /\ TransactionVisible(tenant, t)}

\* transactionRepository.List line 63 and line 70
TransactionCount(tenant) ==
    Cardinality({i \in 1..Len(transactions) : TransactionVisible(tenant, transactions[i])})
TransactionFind(tenant, page, limit) ==
    {PageOf(ids, page, limit) :
        ids \in Orderings({t.id : t \in {r \in {transactions[i] : i \in 1..Len(transactions)} :
                                               TransactionVisible(tenant, r)}})}

\* ------------------------------------------------------ CreateTransaction
\* line 63: product.Stock < item.Quantity is an error
SufficientStockPositive(row, quantity) == row.stock > 0
SufficientStock(row, quantity) == ~(row.stock < quantity)

\* line 76: the item keeps the price of the row read for it
ItemPriceUnset(row) == Zero
ItemPrice(row) == row.harga_jual

\* lines 69-70: itemTotal := product.HargaJual * float64(item.Quantity), added to
\* calculatedTotal
AddItemTotal(calculatedTotal, row, quantity) ==
    FAdd(calculatedTotal, FMul(row.harga_jual, Float(quantity)))

\* AUTO_INCREMENT: the next insert gets an id no earlier row has had
NextAutoIncrement(n) == n + 1

\* lines 89-91: calculatedTotal * (1 - transaction.Discount/100) in float64
ApplyDiscount(total, discount) ==
    IF Positive(discount)
    THEN FMul(total, FSub(Float(1), FDiv(discount, Float(100))))
    ELSE total

\* line 94
TotalMismatchOverpay(provided, calculated) == FLess(provided, calculated)
TotalMismatch(provided, calculated) == provided # calculated

\* line 83: the stock update goes through tx, not through the pool handle; an
\* UPDATE that finds no row with the id changes nothing and is no error
UpdateStockAutocommit(writes, table, id, newStock) ==
    [writes |-> writes,
     table |-> IF id \in DOMAIN table
               THEN [table EXCEPT ![id].stock = newStock] ELSE table]
UpdateStockInTx(writes, table, id, newStock) ==
    [writes |-> IF id \in DOMAIN table THEN (id :> newStock) @@ writes ELSE writes,
     table |-> table]

\* lines 44-50 and 99: the entity built for tx.Create; it carries no tenant
NewTransaction(id, tenant, its, discount, total) ==
    [id |-> id, tenant_id |-> Null, items |-> its, discount |-> discount,
     total_price |-> total]

\* the rows tx.Create inserts for the entity: the values of the DECIMAL columns
\* and the header's id; the items get their ids from their own INSERT
StoredItems(its) ==
    [k \in 1..Len(its) |->
        [id |-> 0, product_id |-> its[k].product_id,
         quantity |-> its[k].quantity, price |-> ToDecimal(its[k].price)]]
StoredTransactionKeepsId(entity, id, now) ==
    [id |-> entity.id, tenant_id |-> entity.tenant_id,
     items |-> StoredItems(entity.items),
     discount |-> ToDecimal(entity.discount),
     total_price |-> ToDecimal(entity.total_price), created_at |-> now]
StoredTransaction(entity, id, now) ==
    [id |-> id, tenant_id |-> entity.tenant_id,
     items |-> StoredItems(entity.items),
     discount |-> ToDecimal(entity.discount),
     total_price |-> ToDecimal(entity.total_price), created_at |-> now]

\* Locals of a request.  pc: position in the code; tenant: ctx.Value("tenant_id")
\* (NoTenant when absent); items: transaction.Items built so far; calculatedTotal
\* and provided (req.TotalPrice), float64; product: the entity read for the line
\* being processed or being saved; writes: stock updates staged in tx; row: the
\* rows staged by tx.Create, or the tenants row a Save or a Create of a user is
\* about to insert; user: the entity UpdatePassword read or the one POST
\* /admin/users bound; read: the list
\* call in progress; result: the outcome.  dbChanged, staged and sawCommit are
\* history: whether the call changed a committed table, whether it had issued a
\* stock update inside its transaction, and the ids other calls committed while
\* this one was inside its transaction.  line is history too: the request line
\* read last, the stock its product lookup returned (0 when it returned no row)
\* and the number of lines read so far.  skuOwners, history of CreateProduct: the
\* tenant references of the rows that held the requested SKU when it was looked up.
IdleCall ==
    [pc |-> "idle", tenant |-> NoTenant, items |-> <<>>, calculatedTotal |-> Zero,
     product |-> NoProduct, provided |-> Zero, writes |-> EmptyWrites, row |-> NoRow,
     user |-> NoUser, read |-> NoRead,
     result |-> "none", dbChanged |-> FALSE, staged |-> FALSE, sawCommit |-> {},
     line |-> NoLine, skuOwners |-> {}]

\* InnoDB row locks: an UPDATE through tx locks the product row until the
\* transaction ends, and the INSERT of the items locks the product rows they
\* refer to
RowLocked(q, id) ==
    \/ id \in DOMAIN call[q].writes
    \/ /\ call[q].pc = "commit"
       /\ \E k \in 1..Len(call[q].row.items) : call[q].row.items[k].product_id = id
RowLockFree(p, id) == \A q \in Procs \ {p} : ~RowLocked(q, id)
RowUnlocked(id) == \A q \in Procs : ~RowLocked(q, id)

\* The tenants row a gorm Create of a user has inserted for the user's nested
\* tenant is locked until that Create commits or rolls back: a statement that
\* has to look at the row (an INSERT or an UPDATE under its id, a DELETE of it,
\* the foreign-key check of a row that refers to it) waits.
TenantRowFree(id) ==
    \A q \in Procs : ~(call[q].pc = "insert_user" /\ call[q].row.id = id)

InFlight == Cardinality({q \in Procs : call[q].pc \in InTx})

\* A finished call hands its response to the client before any other request
\* moves on: the response is local to the goroutine, so this order loses no state
\* of the tables.
NoResponsePending == lastRead = NoRead /\ \A q \in Procs : call[q].pc # "done"

\* the call returns res; a transaction still open is rolled back
Finished(c, res) ==
    [IdleCall EXCEPT !.pc = "done", !.tenant = c.tenant, !.result = res,
                     !.dbChanged = c.dbChanged, !.staged = c.staged, !.line = c.line,
                     !.product = c.product, !.skuOwners = c.skuOwners,
                     !.user = c.user, !.read = c.read]

\* The tables after the migrations have run on an empty database, on the
\* mysql:8.0 server of docker-compose.yml with its default sql_mode: every table
\* is empty.  No migration inserts a tenant, and the INSERT of
\* 002_create_products_table.sql names the column tenant_id, which the products
\* table does not have until the tenants migration adds it, so it is refused.
Init ==
    /\ tenants = {}
    /\ nextTenantID = 1
    /\ products = [id \in {} |-> NoProduct]
    /\ nextProductID = 1
    /\ transactions = <<>>
    /\ nextID = 1
    /\ nextItemID = 1
    /\ users = [id \in {} |-> NoUser]
    /\ nextUserID = 1
    /\ tokens = {}
    /\ sqlMode = DefaultSqlMode
    /\ call = [p \in Procs |-> IdleCall]
    /\ productOps = 0
    /\ lastRead = NoRead

\* lines 31-37: an empty request is rejected before the transaction opens
CreateTransactionEmptyAfterInsert(p, tenant) ==
    /\ call[p].pc = "idle"
    /\ Len(transactions) + InFlight < MaxTx
    /\ call' = [call EXCEPT ![p] = Finished([IdleCall EXCEPT !.tenant = tenant],
                                            "empty_items")]
    /\ nextID' = NextAutoIncrement(nextID)
    /\ UNCHANGED <<catalog, transactions, nextItemID, accounts, sqlMode, productOps, lastRead>>
CreateTransactionEmpty(p, tenant) ==
    /\ call[p].pc = "idle"
    /\ Len(transactions) + InFlight < MaxTx
    /\ call' = [call EXCEPT ![p] = Finished([IdleCall EXCEPT !.tenant = tenant],
                                            "empty_items")]
    /\ UNCHANGED <<catalog, sales, accounts, sqlMode, productOps, lastRead>>

\* lines 42-53: the transaction opens
CreateTransactionBegin(p, tenant) ==
    /\ call[p].pc = "idle"
    /\ Len(transactions) + InFlight < MaxTx
    /\ call' = [call EXCEPT ![p] = [IdleCall EXCEPT !.pc = "loop", !.tenant = tenant]]
    /\ UNCHANGED <<catalog, sales, accounts, sqlMode, productOps, lastRead>>

\* lines 56-79: one request line is read, the product fetched and checked
ProcessItem(p, item) ==
    /\ call[p].pc = "loop"
    /\ Len(call[p].items) < MaxItems
    /\ LET row == ProductGetByID(call[p].tenant, item.product_id)
           c == [call[p] EXCEPT !.line = [product_id |-> item.product_id,
                                          quantity |-> item.quantity,
                                          stock |-> row.stock, n |-> @.n + 1]] IN
       call' = [call EXCEPT ![p] =
          IF row.id = 0 THEN Finished(c, "product_not_found")
          ELSE IF ~SufficientStock(row, item.quantity)
               THEN Finished(c, "insufficient_stock")
          ELSE [c EXCEPT !.pc = "update",
                         !.product = row,
                         !.calculatedTotal = AddItemTotal(@, row, item.quantity),
                         !.items = Append(@, [product_id |-> item.product_id,
                                              quantity |-> item.quantity,
                                              price |-> ItemPrice(row)])]]
    /\ UNCHANGED <<catalog, sales, accounts, sqlMode, productOps, lastRead>>

\* lines 82-85: UPDATE products SET stock = newStock WHERE id = ?
UpdateProductStock(p) ==
    /\ call[p].pc = "update"
    /\ LET c == call[p]
           item == c.items[Len(c.items)]
           newStock == c.product.stock - item.quantity
           out == UpdateStockInTx(c.writes, products, item.product_id, newStock)
       IN /\ RowLockFree(p, item.product_id)
          /\ products' = out.table
          /\ call' = [call EXCEPT ![p] =
                 [c EXCEPT !.pc = "loop", !.product = NoProduct,
                           !.writes = out.writes, !.staged = TRUE,
                           !.dbChanged = @ \/ out.table # products]]
    /\ UNCHANGED <<nextProductID, sales, accounts, sqlMode, productOps, lastRead>>

\* lines 83-85: the UPDATE returns an error (lock wait timeout, deadlock victim,
\* lost connection) and the transaction rolls back
UpdateProductStockFails(p) ==
    /\ call[p].pc = "update"
    /\ call' = [call EXCEPT ![p] = Finished(call[p], "persistence_failure")]
    /\ UNCHANGED <<catalog, sales, accounts, sqlMode, productOps, lastRead>>

\* lines 88-99: after the last line the discount is applied and the total compared
CheckTotal(p, discount, provided) ==
    /\ call[p].pc = "loop"
    /\ Len(call[p].items) >= 1
    /\ LET c == call[p]
           Checked(total) ==
               IF TotalMismatch(provided, total) THEN Finished(c, "total_mismatch")
               ELSE [c EXCEPT !.pc = "create", !.calculatedTotal = total,
                              !.provided = provided,
                              !.row = NewTransaction(0, c.tenant, c.items, discount, total)]
       IN call' = [call EXCEPT ![p] = Checked(ApplyDiscount(c.calculatedTotal, discount))]
    /\ UNCHANGED <<catalog, sales, accounts, sqlMode, productOps, lastRead>>

\* lines 102-107, tx.Create, first statement: INSERT INTO transactions.  The
\* header gets the next id of the table.
CreateRow(p, instants) ==
    /\ call[p].pc = "create"
    /\ \E now \in instants :
          call' = [call EXCEPT ![p].pc = "create_items",
                               ![p].row = StoredTransaction(@, nextID, now)]
    /\ nextID' = NextAutoIncrement(nextID)
    /\ UNCHANGED <<catalog, transactions, nextItemID, accounts, sqlMode, productOps, lastRead>>

\* the ids of transactions that failed inserts have used up
LostIds ==
    nextID - 1 - Len(transactions)
        - Cardinality({q \in Procs : call[q].pc \in {"create_items", "commit"}})

\* lines 102-104: the header's INSERT returns an error (lost connection, lock
\* wait timeout), before or after it has taken its id, and the transaction
\* rolls back; the items' INSERT is not sent
CreateRowFails(p) ==
    /\ call[p].pc = "create"
    /\ call' = [call EXCEPT ![p] = Finished(call[p], "persistence_failure")]
    /\ \E header \in {0, 1} :
          /\ header = 1 => LostIds < MaxFailedInserts
          /\ nextID' = nextID + header
    /\ UNCHANGED <<catalog, transactions, nextItemID, accounts, sqlMode, productOps, lastRead>>

\* the items with the ids first, first + 1, ...
WithItemIds(its, first) == [k \in 1..Len(its) |-> [its[k] EXCEPT !.id = first + k - 1]]

\* tx.Create, second statement: INSERT INTO transaction_items, one statement
\* for all items, which get consecutive ids.  Other requests run between the
\* header's INSERT and this one.  fk_transaction_items_product needs the
\* products row of every item: without it the INSERT is refused after it has
\* taken its ids, and the transaction rolls back.  The header's id and the
\* items' ids are not given back.
CreateItems(p) ==
    /\ call[p].pc = "create_items"
    /\ LET its == call[p].row.items
           refused == \E k \in 1..Len(its) : its[k].product_id \notin DOMAIN products
       IN call' = [call EXCEPT ![p] =
             IF refused THEN Finished(call[p], "persistence_failure")
             ELSE [call[p] EXCEPT !.pc = "commit",
                                  !.row.items = WithItemIds(its, nextItemID)]]
    /\ nextItemID' = nextItemID + Len(call[p].row.items)
    /\ UNCHANGED <<catalog, transactions, nextID, accounts, sqlMode, productOps, lastRead>>

\* the items' INSERT returns an error of the connection, before or after it has
\* taken its ids, and the transaction rolls back
CreateItemsFails(p) ==
    /\ call[p].pc = "create_items"
    /\ LostIds < MaxFailedInserts
    /\ call' = [call EXCEPT ![p] = Finished(call[p], "persistence_failure")]
    /\ \E lines \in {0, Len(call[p].row.items)} : nextItemID' = nextItemID + lines
    /\ UNCHANGED <<catalog, transactions, nextID, accounts, sqlMode, productOps, lastRead>>

\* line 108: the closure returned nil, gorm commits
Commit(p) ==
    /\ call[p].pc = "commit"
    /\ LET c == call[p] IN
       /\ products' = [id \in DOMAIN products |->
                         IF id \in DOMAIN c.writes
                         THEN [products[id] EXCEPT !.stock = c.writes[id]]
                         ELSE products[id]]
       /\ transactions' = Append(transactions,
               [id |-> c.row.id, tenant_id |-> c.row.tenant_id,
                items |-> c.row.items, discount |-> c.row.discount,
                total_price |-> c.row.total_price,
                created_at |-> c.row.created_at,
                createdUnder |-> c.tenant, provided |-> c.provided,
                calculated |-> c.calculatedTotal,
                stockBefore |-> [id \in DOMAIN products |-> products[id].stock],
                overlapped |-> c.sawCommit])
       /\ call' = [q \in Procs |->
               IF q = p
               THEN [IdleCall EXCEPT !.pc = "reread", !.tenant = c.tenant,
                                     !.row = [id |-> c.row.id], !.dbChanged = TRUE,
                                     !.staged = TRUE, !.line = c.line]
               ELSE IF call[q].pc \in InTx
                    THEN [call[q] EXCEPT !.sawCommit = @ \cup {c.row.id}]
                    ELSE call[q]]
    /\ UNCHANGED <<nextProductID, nextID, nextItemID, accounts, sqlMode, productOps, lastRead>>

\* lines 115-116: the committed transaction is read back through the repository
Reread(p) ==
    /\ call[p].pc = "reread"
    /\ call' = [call EXCEPT ![p] =
            Finished(call[p],
                     IF TransactionGetByID(call[p].tenant, call[p].row.id) # {}
                     THEN "ok" ELSE "transaction_not_found")]
    /\ UNCHANGED <<catalog, sales, accounts, sqlMode, productOps, lastRead>>

\* the handler has answered; the goroutine is free for the next request
Return(p) ==
    /\ call[p].pc = "done"
    /\ call' = [call EXCEPT ![p] = IdleCall]
    /\ UNCHANGED <<catalog, sales, accounts, sqlMode, productOps, lastRead>>

\* --------------------------------------------------------- product service
\* UpdateProduct lines 78-94: the fields present in the map overwrite the row read
ApplyUpdates(row, updates) ==
    [f \in DOMAIN row |-> IF f \in DOMAIN updates THEN updates[f] ELSE row[f]]

\* the handler's map: harga_jual is the float64 of the request's number
ProductUpdates == {("harga_jual" :> FromDecimal(v)) : v \in Prices}

\* UpdateProduct lines 63-97 and UpdateStock lines 108-125: the tenant is taken
\* from the context, the row is read under it, changed in memory and stamped.
\* budget bounds the number of product operations started.
GetForUpdate(p, tenant, id, updates, budget) ==
    /\ call[p].pc = "idle"
    /\ productOps < budget
    /\ productOps' = productOps + 1
    /\ LET c == [IdleCall EXCEPT !.tenant = tenant]
           row == ProductGetByID(tenant, id) IN
       call' = [call EXCEPT ![p] =
          IF tenant = NoTenant THEN Finished(c, "tenant_id_not_found")
          ELSE IF row.id = 0 THEN Finished(c, "product_not_found")
          ELSE [c EXCEPT !.pc = "save",
                         !.product = [ApplyUpdates(row, updates) EXCEPT !.tenant_id = tenant]]]
    /\ UNCHANGED <<catalog, sales, accounts, sqlMode, lastRead>>

UpdateProduct(p, tenant, id, updates, budget) ==
    /\ "stock" \notin DOMAIN updates
    /\ GetForUpdate(p, tenant, id, updates, budget)

UpdateStock(p, tenant, id, stock, budget) ==
    GetForUpdate(p, tenant, id, "stock" :> stock, budget)

\* UNIQUE KEY idx_products_sku (sku): a write that would give the row `id` a SKU
\* another row holds is refused by the database
UniqueSkuNotEnforced(table, id, sku) == FALSE
UniqueSkuViolated(table, id, sku) ==
    \E k \in DOMAIN table \ {id} : table[k].sku = sku

\* the columns Save and Create write; harga_jual is stored as DECIMAL(10,2)
Columns(row, table, id) ==
    [tenant_id |-> row.tenant_id, stock |-> row.stock,
     harga_jual |-> ToDecimal(row.harga_jual), sku |-> row.sku,
     createdUnder |-> IF id \in DOMAIN table THEN table[id].createdUnder
                      ELSE row.tenant_id]

\* productRepository.Update: Where("id = ? AND tenant_id = ?").Save(product).
\* Save first sends UPDATE products SET <every column> WHERE id = ? AND
\* tenant_id = ?, with the tenant of the context, waiting for the row lock:
\*  - the row has the id and the tenant: it is rewritten, or the UPDATE is
\*    refused when it would give the row a SKU another row holds.  An UPDATE
\*    that changes no column (the same values as the row holds, updated_at
\*    being kept in whole seconds) reports no row affected;
\*  - no row has the id and the tenant: no row is affected.
\* When no row is affected Save goes on with a second statement
\* (SaveProductInsert), and other requests run between the two.
SaveProduct(p) ==
    /\ call[p].pc = "save"
    /\ LET row == call[p].product
           tenant == call[p].tenant
           matched == /\ row.id \in DOMAIN products
                      /\ tenant # NoTenant
                      /\ products[row.id].tenant_id # Null
                      /\ products[row.id].tenant_id = tenant
           taken == UniqueSkuViolated(products, row.id, row.sku)
           written == IF matched /\ ~taken
                      THEN [products EXCEPT ![row.id] = Columns(row, products, row.id)]
                      ELSE products
       IN
       /\ RowLockFree(p, row.id)
       /\ \E affected \in BOOLEAN :
             /\ affected => matched
             /\ (matched /\ (taken \/ written # products)) => affected
             /\ products' = written
             /\ call' = [call EXCEPT ![p] =
                   IF affected
                   THEN [Finished(call[p], IF taken THEN "persistence_failure" ELSE "ok")
                            EXCEPT !.dbChanged = written # products]
                   ELSE [call[p] EXCEPT !.pc = "upsert"]]
    /\ UNCHANGED <<nextProductID, sales, accounts, sqlMode, productOps, lastRead>>

\* the second statement of Save: INSERT INTO products ... ON DUPLICATE KEY
\* UPDATE <every column>, which has no WHERE.  On the table as it is by now it
\* rewrites the row with the id, whatever its tenant, or inserts the row, or
\* (the id free and the SKU taken) rewrites the row holding the SKU; it is
\* refused when the rewritten row would take the SKU of another row and under
\* a tenant the tenants table does not hold.
SaveProductInsert(p) ==
    /\ call[p].pc = "upsert"
    /\ LET row == call[p].product
           taken == UniqueSkuViolated(products, row.id, row.sku)
           holder == CHOOSE k \in DOMAIN products : products[k].sku = row.sku
           failed == (taken /\ row.id \in DOMAIN products) \/ row.tenant_id \notin tenants
       IN
       /\ RowLockFree(p, row.id)
       /\ TenantRowFree(row.tenant_id)
       /\ products' =
            IF failed THEN products
            ELSE IF row.id \in DOMAIN products
                 THEN [products EXCEPT ![row.id] = Columns(row, products, row.id)]
            ELSE IF taken
                 THEN [products EXCEPT ![holder] =
                          [Columns(row, products, holder) EXCEPT !.sku = row.sku]]
            ELSE (row.id :> Columns(row, products, row.id)) @@ products
       /\ call' = [call EXCEPT ![p] =
                     [Finished(call[p], IF failed THEN "persistence_failure" ELSE "ok")
                        EXCEPT !.dbChanged = products' # products]]
    /\ UNCHANGED <<nextProductID, sales, accounts, sqlMode, productOps, lastRead>>

\* productRepository.GetBySKU: WHERE sku = ? AND tenant_id = ?
ProductGetBySKU(tenant, sku) ==
    {id \in DOMAIN products :
        products[id].sku = sku /\ tenant # NoTenant /\ products[id].tenant_id # Null
        /\ products[id].tenant_id = tenant}

\* the bodies of POST /api/products: SKU, stock and price
CreateRequests == [sku : Skus, stock : {1}, harga_jual : {999999}]

\* CreateProduct lines 136-152: the tenant is taken from the context and stamped,
\* an existing product with the SKU under the tenant is an error
CreateProduct(p, tenant, req, budget) ==
    /\ call[p].pc = "idle"
    /\ productOps < budget
    /\ productOps' = productOps + 1
    /\ LET c == [IdleCall EXCEPT
                   !.tenant = tenant,
                   !.product = [NoProduct EXCEPT !.tenant_id = tenant, !.sku = req.sku,
                                                 !.stock = req.stock,
                                                 !.harga_jual = FromDecimal(req.harga_jual)],
                   !.skuOwners = {products[id].tenant_id :
                                    id \in {k \in DOMAIN products : products[k].sku = req.sku}}]
       IN call' = [call EXCEPT ![p] =
             IF tenant = NoTenant
             THEN Finished([c EXCEPT !.product = NoProduct], "tenant_id_not_found")
             ELSE IF ProductGetBySKU(tenant, req.sku) # {} THEN Finished(c, "duplicate_sku")
             ELSE [c EXCEPT !.pc = "insert"]]
    /\ UNCHANGED <<catalog, sales, accounts, sqlMode, lastRead>>

\* CreateProduct lines 154-159, productRepository.Create: INSERT INTO products,
\* refused under a SKU another row holds (idx_products_sku) and under a tenant
\* the tenants table does not hold (fk_products_tenant); the AUTO_INCREMENT value
\* is used up whether or not the insert succeeds
InsertProduct(p) ==
    /\ call[p].pc = "insert"
    /\ LET row == call[p].product
           failed == UniqueSkuViolated(products, nextProductID, row.sku)
                     \/ row.tenant_id \notin tenants IN
       /\ TenantRowFree(row.tenant_id)
       /\ products' =
            IF failed THEN products
            ELSE (nextProductID :> Columns(row, products, nextProductID)) @@ products
       /\ call' = [call EXCEPT ![p] =
                     [Finished(call[p], IF failed THEN "persistence_failure" ELSE "created")
                        EXCEPT !.dbChanged = ~failed]]
    /\ nextProductID' = NextAutoIncrement(nextProductID)
    /\ UNCHANGED <<sales, accounts, sqlMode, productOps, lastRead>>

\* ------------------------------------------------------------------ reads
\* A get of one row is one SELECT on the pool handle: it sees the committed
\* tables only.  Every value the committed tables take is also taken with no
\* request in flight (a call that has not committed has changed nothing), so the
\* single-statement reads are taken between requests.
Quiescent == lastRead = NoRead /\ \A q \in Procs : call[q].pc = "idle"

\* one request at a time: a call starts and runs while every other goroutine is
\* idle; no discount
Alone(p) == \A q \in Procs \ {p} : call[q].pc = "idle"

Pages == {1}
Limits == {2}
TransactionIds == 1..(MaxTx + MaxFailedInserts + 1)

GetProduct(tenant, id) ==
    /\ Quiescent
    /\ LET row == ProductGetByID(tenant, id) IN
       lastRead' = [op |-> "GetProduct", tenant |-> tenant,
                    ids |-> IF row.id = 0 THEN <<>> ELSE <<row.id>>,
                    total |-> 0,
                    err |-> IF row.id = 0 THEN "product_not_found" ELSE "none"]
    /\ UNCHANGED <<catalog, sales, accounts, sqlMode, call, productOps>>

\* ListProducts lines 46-54 and productRepository.List up to line 104: the page
\* and the limit are clamped and the rows counted
ListProducts(p, tenant, page, limit) ==
    /\ call[p].pc = "idle"
    /\ call' = [call EXCEPT ![p] =
          [IdleCall EXCEPT
              !.pc = "find_products", !.tenant = tenant,
              !.read = [op |-> "ListProducts", tenant |-> tenant, ids |-> <<>>,
                        total |-> ProductCount(tenant), err |-> "none",
                        request |-> [page |-> page, limit |-> limit],
                        query |-> [page |-> ClampPage(page),
                                   limit |-> ClampLimit(limit)]]]]
    /\ UNCHANGED <<catalog, sales, accounts, sqlMode, productOps, lastRead>>

\* productRepository.List lines 110-116: the page is read by a second statement,
\* from the table as it is by then
FindProducts(p) ==
    /\ call[p].pc = "find_products"
    /\ lastRead = NoRead
    /\ \E ids \in ProductFind(call[p].tenant, call[p].read.query.page,
                              call[p].read.query.limit) :
          lastRead' = [call[p].read EXCEPT !.ids = ids]
    /\ call' = [call EXCEPT ![p] = IdleCall]
    /\ UNCHANGED <<catalog, sales, accounts, sqlMode, productOps>>

GetTransaction(tenant, id) ==
    /\ Quiescent
    /\ LET rows == TransactionGetByID(tenant, id) IN
       lastRead' = [op |-> "GetTransaction", tenant |-> tenant,
                    ids |-> SortedIds({t.id : t \in rows}),
                    total |-> 0,
                    err |-> IF rows = {} THEN "transaction_not_found" ELSE "none"]
    /\ UNCHANGED <<catalog, sales, accounts, sqlMode, call, productOps>>

\* ListTransactions lines 135-143 and transactionRepository.List up to line 63
ListTransactions(p, tenant, page, limit) ==
    /\ call[p].pc = "idle"
    /\ call' = [call EXCEPT ![p] =
          [IdleCall EXCEPT
              !.pc = "find_transactions", !.tenant = tenant,
              !.read = [op |-> "ListTransactions", tenant |-> tenant, ids |-> <<>>,
                        total |-> TransactionCount(tenant), err |-> "none",
                        request |-> [page |-> page, limit |-> limit],
                        query |-> [page |-> ClampPage(page),
                                   limit |-> ClampLimit(limit)]]]]
    /\ UNCHANGED <<catalog, sales, accounts, sqlMode, productOps, lastRead>>

\* transactionRepository.List lines 69-75
FindTransactions(p) ==
    /\ call[p].pc = "find_transactions"
    /\ lastRead = NoRead
    /\ \E ids \in TransactionFind(call[p].tenant, call[p].read.query.page,
                                  call[p].read.query.limit) :
          lastRead' = [call[p].read EXCEPT !.ids = ids]
    /\ call' = [call EXCEPT ![p] = IdleCall]
    /\ UNCHANGED <<catalog, sales, accounts, sqlMode, productOps>>

\* the response has been written
Respond ==
    /\ lastRead # NoRead
    /\ lastRead' = NoRead
    /\ UNCHANGED <<catalog, sales, accounts, sqlMode, call, productOps>>

\* ------------------------------------------------- repository level writes
\* The repository methods no service calls.  Each is one statement on the pool
\* handle: it runs between any two statements of the requests in flight, after
\* the row locks it needs are free.
\* productRepository.Delete: DELETE FROM products WHERE id = ? AND tenant_id = ?;
\* the error is the statement's error only, the rows affected are not looked at.
\* transaction_items.product_id is ON DELETE CASCADE.
RECURSIVE WithoutProduct(_, _)
WithoutProduct(its, id) ==
    IF its = <<>> THEN <<>>
    ELSE (IF Head(its).product_id = id THEN <<>> ELSE <<Head(its)>>)
         \o WithoutProduct(Tail(its), id)

DeleteMatches(tenant, row) ==
    tenant # NoTenant /\ row.tenant_id # Null /\ row.tenant_id = tenant

ProductRepositoryDelete(tenant, id, budget) ==
    /\ RowUnlocked(id)
    /\ productOps < budget
    /\ productOps' = productOps + 1
    /\ LET hit == id \in DOMAIN products /\ DeleteMatches(tenant, products[id]) IN
       /\ products' = IF hit THEN [k \in DOMAIN products \ {id} |-> products[k]]
                      ELSE products
       /\ transactions' =
            IF hit THEN [i \in 1..Len(transactions) |->
                            [transactions[i] EXCEPT !.items = WithoutProduct(@, id)]]
            ELSE transactions
       /\ lastRead' = [op |-> "ProductRepositoryDelete", tenant |-> tenant,
                       ids |-> <<id>>, total |-> IF hit THEN 1 ELSE 0, err |-> "none"]
    /\ UNCHANGED <<nextProductID, nextID, nextItemID, accounts, sqlMode, call>>

\* productRepository.UpdateStock lines 132-141:
\* UPDATE products SET stock = ? WHERE id = ? AND tenant_id = ?
ProductRepositoryUpdateStock(tenant, id, stock, budget) ==
    /\ RowUnlocked(id)
    /\ productOps < budget
    /\ productOps' = productOps + 1
    /\ LET hit == id \in DOMAIN products /\ DeleteMatches(tenant, products[id]) IN
       /\ products' = IF hit THEN [products EXCEPT ![id].stock = stock] ELSE products
       /\ lastRead' = [op |-> "ProductRepositoryUpdateStock", tenant |-> tenant,
                       ids |-> <<id>>, total |-> IF hit THEN 1 ELSE 0, err |-> "none"]
    /\ UNCHANGED <<nextProductID, sales, accounts, sqlMode, call>>

\* transactionRepository.Delete: DELETE FROM transactions WHERE id = ? AND tenant_id = ?
RECURSIVE WithoutTransaction(_, _, _)
WithoutTransaction(rows, tenant, id) ==
    IF rows = <<>> THEN <<>>
    ELSE (IF Head(rows).id = id /\ DeleteMatches(tenant, Head(rows))
          THEN <<>> ELSE <<Head(rows)>>)
         \o WithoutTransaction(Tail(rows), tenant, id)

TransactionRepositoryDelete(tenant, id, budget) ==
    /\ productOps < budget
    /\ productOps' = productOps + 1
    /\ transactions' = WithoutTransaction(transactions, tenant, id)
    /\ lastRead' = [op |-> "TransactionRepositoryDelete", tenant |-> tenant,
                    ids |-> <<id>>,
                    total |-> Len(transactions) - Len(transactions'), err |-> "none"]
    /\ UNCHANGED <<catalog, nextID, nextItemID, accounts, sqlMode, call>>

\* the headers handed to the repository: without id, with the id of the first
\* sale or with an id no sale reaches; no items, a total of the price list
TransactionEntities ==
    [id : {0, 1, MaxTx + MaxFailedInserts + 1}, total_price : {999999}]

\* the row an INSERT of a header writes; the entity has no tenant field, so the
\* column tenant_id is left NULL
HeaderRow(id, tenant, entity) ==
    [id |-> id, tenant_id |-> Null, items |-> <<>>, discount |-> 0,
     total_price |-> entity.total_price, created_at |-> Midnight(1),
     createdUnder |-> tenant, provided |-> FromDecimal(entity.total_price),
     calculated |-> FromDecimal(entity.total_price),
     stockBefore |-> [k \in DOMAIN products |-> products[k].stock],
     overlapped |-> {}]

\* transactionRepository.Create lines 28-37: INSERT INTO transactions
TransactionRepositoryCreate(tenant, entity, budget) ==
    /\ entity.id = 0
    /\ productOps < budget
    /\ productOps' = productOps + 1
    /\ transactions' = Append(transactions, HeaderRow(nextID, tenant, entity))
    /\ nextID' = NextAutoIncrement(nextID)
    /\ lastRead' = [op |-> "TransactionRepositoryCreate", tenant |-> tenant,
                    ids |-> <<nextID>>, total |-> 1, err |-> "none"]
    /\ UNCHANGED <<catalog, nextItemID, accounts, sqlMode, call>>

\* the transactions row an INSERT of a CreateTransaction has written is locked
\* until that call's database transaction ends: a statement under its id waits
TransactionRowFree(id) ==
    \A q \in Procs : ~(call[q].pc \in {"create_items", "commit"} /\ call[q].row.id = id)

\* the row Save writes over the row i of the table: the columns of the entity
Rewritten(rows, held, entity) ==
    [i \in 1..Len(rows) |->
        IF i \in held
        THEN [rows[i] EXCEPT !.total_price = entity.total_price, !.discount = 0]
        ELSE rows[i]]

TransactionAnswer(tenant, id) ==
    [op |-> "TransactionRepositoryUpdate", tenant |-> tenant, ids |-> <<id>>,
     total |-> 1, err |-> "none"]

\* transactionRepository.Update lines 118-125: Where("id = ? AND tenant_id = ?")
\* .Save(transaction).  An entity without id is inserted.  For an entity with
\* an id Save first sends UPDATE transactions SET <every column> WHERE id = ?
\* AND tenant_id = ?, with the tenant of the context, which rewrites the row
\* only when it has the id and the tenant.  When no row is affected Save goes
\* on with a second statement (TransactionRepositoryUpdateInsert), and other
\* requests run between the two.
TransactionRepositoryUpdate(p, tenant, entity, budget) ==
    /\ call[p].pc = "idle"
    /\ productOps < budget
    /\ productOps' = productOps + 1
    /\ LET held == {i \in 1..Len(transactions) : transactions[i].id = entity.id}
           matched == {i \in held : DeleteMatches(tenant, transactions[i])}
           upsert == [IdleCall EXCEPT !.pc = "upsert_transaction", !.tenant = tenant,
                                      !.row = entity]
       IN
       IF entity.id = 0
       THEN /\ transactions' = Append(transactions, HeaderRow(nextID, tenant, entity))
            /\ nextID' = NextAutoIncrement(nextID)
            /\ lastRead' = TransactionAnswer(tenant, nextID)
            /\ UNCHANGED call
       ELSE /\ TransactionRowFree(entity.id)
            /\ transactions' = Rewritten(transactions, matched, entity)
            /\ lastRead' = IF matched # {} THEN TransactionAnswer(tenant, entity.id)
                           ELSE lastRead
            /\ call' = IF matched # {} THEN call ELSE [call EXCEPT ![p] = upsert]
            /\ UNCHANGED nextID
    /\ UNCHANGED <<catalog, nextItemID, accounts, sqlMode>>

\* the second statement of Save: INSERT INTO transactions ... ON DUPLICATE KEY
\* UPDATE <every column>, which has no WHERE.  On the table as it is by now it
\* rewrites the row with the id whatever its tenant, or inserts the row under
\* the id.
TransactionRepositoryUpdateInsert(p) ==
    /\ call[p].pc = "upsert_transaction"
    /\ lastRead = NoRead
    /\ LET entity == call[p].row
           tenant == call[p].tenant
           held == {i \in 1..Len(transactions) : transactions[i].id = entity.id}
       IN
       /\ TransactionRowFree(entity.id)
       /\ transactions' =
            IF held = {} THEN Append(transactions, HeaderRow(entity.id, tenant, entity))
            ELSE Rewritten(transactions, held, entity)
       /\ nextID' = IF entity.id >= nextID THEN entity.id + 1 ELSE nextID
       /\ lastRead' = TransactionAnswer(tenant, entity.id)
    /\ call' = [call EXCEPT ![p] = IdleCall]
    /\ UNCHANGED <<catalog, nextItemID, accounts, sqlMode, productOps>>

\* userRepository.Delete lines 83-90: DELETE FROM users WHERE id = ? AND tenant_id = ?
UserRepositoryDelete(tenant, id, budget) ==
    /\ productOps < budget
    /\ productOps' = productOps + 1
    /\ LET hit == id \in DOMAIN users /\ DeleteMatches(tenant, users[id]) IN
       /\ users' = IF hit THEN [k \in DOMAIN users \ {id} |-> users[k]] ELSE users
       /\ lastRead' = [op |-> "UserRepositoryDelete", tenant |-> tenant,
                       ids |-> <<id>>, total |-> IF hit THEN 1 ELSE 0, err |-> "none"]
    /\ UNCHANGED <<catalog, sales, tenants, nextTenantID, nextUserID, tokens, sqlMode, call>>

\* ---------------------------------------------------------------- tenants
\* the bodies of POST /admin/tenants and PUT /admin/tenants/:id: c.Bind fills
\* entities.Tenant, whose ID is tagged json:"id" and whose CreatedAt is tagged
\* json:"created_at"; 0 stands for a body without id, and for a body without
\* created_at (the zero time.Time)
TenantBodies == [id : {0} \cup Tenants, created_at : {0, Midnight(1)}]

TenantAnswer(op, id, err) ==
    [op |-> op, tenant |-> NoTenant, ids |-> <<id>>, total |-> 0, err |-> err]

\* the AUTO_INCREMENT counter after a row with the id has been inserted
AutoIncrementAfter(counter, id) == IF id >= counter THEN id + 1 ELSE counter

\* POST /admin/tenants: AdminHandler.CreateTenant lines 83-95 with
\* tenantService.CreateTenant and tenantRepository.Create: INSERT INTO tenants.
\* A body without id gets the next id of the table; a body with an id is
\* inserted under it, or refused when a row has it (error 1062, answered 500).
\* gorm's Create puts the current time into a zero CreatedAt.
CreateTenant(body) ==
    /\ LET id == IF body.id = 0 THEN nextTenantID ELSE body.id
           refused == id \in tenants
       IN /\ id \in Tenants
          /\ TenantRowFree(id)
          /\ tenants' = IF refused THEN tenants ELSE tenants \cup {id}
          /\ nextTenantID' = IF refused THEN nextTenantID
                             ELSE AutoIncrementAfter(nextTenantID, id)
          /\ lastRead' = TenantAnswer("CreateTenant", id,
                                      IF refused THEN "internal" ELSE "none")
    /\ UNCHANGED <<catalog, sales, users, nextUserID, tokens, sqlMode, call, productOps>>

\* PUT /admin/tenants/:id: AdminHandler.UpdateTenant lines 114-134 with
\* tenantService.UpdateTenant and tenantRepository.Update, db.Save(tenant).
\* The id of the path replaces the body's.  With the id 0 Save is an INSERT
\* under the next id.  Otherwise Save first sends UPDATE tenants SET name = ?,
\* created_at = ?, updated_at = ? WHERE id = ?, every column of the entity:
\*  - a row has the id and the body has no created_at: the zero time is
\*    written as '0000-00-00 00:00:00', which the server refuses under its
\*    default sql_mode (error 1292); the handler answers 500 (line 129) and the
\*    row is as it was;
\*  - a row has the id and the body has a created_at: the row is updated and
\*    the handler answers 200, unless the UPDATE changes no column (the same
\*    name and times as the row holds, updated_at being kept in whole
\*    seconds), when the server reports no row affected;
\*  - no row has the id: no row is affected.
\* When no row is affected Save goes on with a second statement
\* (UpdateTenantInsert), and other requests run between the two.
UpdateTenant(p, path, body) ==
    /\ call[p].pc = "idle"
    /\ LET id == IF path = 0 THEN nextTenantID ELSE path
           insert == [IdleCall EXCEPT !.pc = "insert_tenant", !.row = [id |-> id]]
       IN /\ id \in Tenants
          /\ TenantRowFree(id)
          /\ \/ /\ path = 0
                /\ tenants' = tenants \cup {id}
                /\ nextTenantID' = NextAutoIncrement(nextTenantID)
                /\ lastRead' = TenantAnswer("UpdateTenant", id, "none")
                /\ UNCHANGED call
             \/ /\ path \in tenants
                /\ body.created_at = 0
                /\ lastRead' = TenantAnswer("UpdateTenant", id, "internal")
                /\ UNCHANGED <<tenants, nextTenantID, call>>
             \/ /\ path \in tenants
                /\ body.created_at # 0
                /\ lastRead' = TenantAnswer("UpdateTenant", id, "none")
                /\ UNCHANGED <<tenants, nextTenantID, call>>
             \/ /\ path # 0
                /\ path \in tenants => body.created_at # 0
                /\ call' = [call EXCEPT ![p] = insert]
                /\ UNCHANGED <<tenants, nextTenantID, lastRead>>
    /\ UNCHANGED <<catalog, sales, users, nextUserID, tokens, sqlMode, productOps>>

\* the second statement of Save: INSERT INTO tenants ... ON DUPLICATE KEY
\* UPDATE <every column>, for which gorm's Create has put the current time into
\* a zero CreatedAt.  It inserts the tenant under the id, or rewrites the row
\* that has the id by now; the handler answers 200.
UpdateTenantInsert(p) ==
    /\ call[p].pc = "insert_tenant"
    /\ lastRead = NoRead
    /\ LET id == call[p].row.id
       IN /\ TenantRowFree(id)
          /\ tenants' = tenants \cup {id}
          /\ nextTenantID' = IF id \in tenants THEN nextTenantID
                             ELSE AutoIncrementAfter(nextTenantID, id)
          /\ lastRead' = TenantAnswer("UpdateTenant", id, "none")
    /\ call' = [call EXCEPT ![p] = IdleCall]
    /\ UNCHANGED <<catalog, sales, users, nextUserID, tokens, sqlMode, productOps>>

\* fk_users_tenant, fk_products_tenant and fk_transactions_tenant (no ON
\* DELETE clause): a tenant that a row refers to cannot be deleted
TenantReferenced(id) ==
    \/ \E k \in DOMAIN users : users[k].tenant_id = id
    \/ \E k \in DOMAIN products : products[k].tenant_id = id
    \/ \E i \in 1..Len(transactions) : transactions[i].tenant_id = id

\* tenantService.DeleteTenant lines 68-75 with tenantRepository.Delete:
\* DELETE FROM tenants WHERE id = ?; a statement that deletes no row is no error
DeleteTenant(id) ==
    /\ TenantRowFree(id)
    /\ LET refused == id \in tenants /\ TenantReferenced(id)
       IN /\ tenants' = IF refused THEN tenants ELSE tenants \ {id}
          /\ lastRead' = TenantAnswer("DeleteTenant", id,
                                      IF refused THEN "internal" ELSE "none")
    /\ UNCHANGED <<catalog, sales, nextTenantID, users, nextUserID, tokens, sqlMode, call,
                   productOps>>

\* ------------------------------------------------------------ the requests
\* transaction_handler.go line 33 and lines 63-66: total_price is tagged
\* validate:"required,min=0"; a request whose total_price is zero or negative
\* is answered 400 before the service is called
ValidTotalPrice(total) == Positive(total)

\* What the client sends as total_price for the lines it asked for: the float64
\* the service computes, that amount written with two decimals, one unit more,
\* or one unit, as far as the handler lets them pass.  The service compares for
\* equality only, so a total that differs stands for every total that differs.
ClientTotals(calculatedTotal, discount) ==
    LET Sent(total) == {total, FromDecimal(ToDecimal(total)), FAdd(total, Float(1)),
                        Float(1)}
    IN {total \in Sent(ApplyDiscount(calculatedTotal, discount)) : ValidTotalPrice(total)}

\* one step of a CreateTransaction call whose request lines and discount are
\* drawn from the given sets, on a database that answers every statement
CreateTransactionSteps(p, lines, discounts, instants) ==
    \/ \E tenant \in Scopes : CreateTransactionEmpty(p, tenant)
    \/ \E tenant \in Scopes : CreateTransactionBegin(p, tenant)
    \/ \E item \in lines : ProcessItem(p, item)
    \/ UpdateProductStock(p)
    \/ /\ call[p].pc = "loop"
       /\ \E d \in discounts :
             \E provided \in ClientTotals(call[p].calculatedTotal, FromDecimal(d)) :
                CheckTotal(p, FromDecimal(d), provided)
    \/ CreateRow(p, instants)
    \/ CreateItems(p)
    \/ Commit(p)
    \/ Reread(p)

\* the same on a database whose statements may fail
CreateTransactionAt(p, lines, discounts, instants) ==
    \/ CreateTransactionSteps(p, lines, discounts, instants)
    \/ UpdateProductStockFails(p)
    \/ CreateRowFails(p)
    \/ CreateItemsFails(p)

\* the same with the clock standing at the first midnight
CreateTransactionOn(p, lines, discounts) ==
    CreateTransactionAt(p, lines, discounts, {Midnight(1)})

CreateTransaction(p) == CreateTransactionOn(p, Lines, Discounts)

\* ------------------------------------------------------------------- hash
\* Text is a sequence of one-character strings.
Upper == <<"A","B","C","D","E","F","G","H","I","J","K","L","M",
           "N","O","P","Q","R","S","T","U","V","W","X","Y","Z">>
Lower == <<"a","b","c","d","e","f","g","h","i","j","k","l","m",
           "n","o","p","q","r","s","t","u","v","w","x","y","z">>
Digits == <<"0","1","2","3","4","5","6","7","8","9">>
Range(s) == {s[i] : i \in DOMAIN s}
Contains(s, c) == \E i \in DOMAIN s : s[i] = c
IndexOf(s, c) == CHOOSE i \in DOMAIN s : s[i] = c

\* the code point of a character, int(rune)
Ord ==
    [c \in Range(Upper) \cup Range(Lower) \cup Range(Digits) \cup {"_"} |->
        IF Contains(Upper, c) THEN 64 + IndexOf(Upper, c)
        ELSE IF Contains(Lower, c) THEN 96 + IndexOf(Lower, c)
        ELSE IF Contains(Digits, c) THEN 47 + IndexOf(Digits, c)
        ELSE 95]

\* part_007 lines 9-13: alphabet, minLength and salt of the encoder
alphabet == Upper \o <<"1","2","3","4","5","6","7","8","9","0">>
minLength == 7
salt == <<"_","_","n","e","x","t","_","m","o","v","e","_","t","o","_",
          "c","o","n","f","i","g","_","_">>

\* go-hashids: the separator characters, "cfhistuCFHISTU"
sepsOriginal == <<"c","f","h","i","s","t","u","C","F","H","I","S","T","U">>

\* go-hashids consistentShuffleInPlace: i and v are the loop's 0-based indices
RECURSIVE ShuffleFrom(_, _, _, _, _)
ShuffleFrom(al, s, i, v, p) ==
    IF i <= 0 THEN al
    ELSE LET c == Ord[s[v + 1]]
             q == p + c
             j == (c + v + q) % i
         IN  ShuffleFrom([al EXCEPT ![i + 1] = al[j + 1], ![j + 1] = al[i + 1]],
                         s, i - 1, (v + 1) % Len(s), q)
consistentShuffle(al, s) ==
    IF Len(s) = 0 THEN al ELSE ShuffleFrom(al, s, Len(al) - 1, 0, 0)

\* go-hashids NewWithData, as called by newHashIDs (part_007 lines 15-21):
\* separators are taken out of the alphabet and shuffled, topped up to one
\* per 3.5 alphabet characters, and one guard per 12 characters is taken
NewWithData(alphabet0, salt0, minLength0) ==
    LET SepsLength(n) == IF (2 * n + 6) \div 7 = 1 THEN 2 ELSE (2 * n + 6) \div 7
        GuardCount(n) == (n + 11) \div 12
        TakeGuards(al2, seps2) ==
            IF Len(al2) < 3
            THEN [alphabet |-> al2,
                  seps |-> SubSeq(seps2, GuardCount(Len(al2)) + 1, Len(seps2)),
                  guards |-> SubSeq(seps2, 1, GuardCount(Len(al2))),
                  salt |-> salt0, minLength |-> minLength0]
            ELSE [alphabet |-> SubSeq(al2, GuardCount(Len(al2)) + 1, Len(al2)),
                  seps |-> seps2,
                  guards |-> SubSeq(al2, 1, GuardCount(Len(al2))),
                  salt |-> salt0, minLength |-> minLength0]
        TopUp(al0, seps1) ==
            IF ~(Len(seps1) = 0 \/ 2 * Len(al0) > 7 * Len(seps1))
            THEN TakeGuards(consistentShuffle(al0, salt0), seps1)
            ELSE IF SepsLength(Len(al0)) > Len(seps1)
            THEN TakeGuards(
                     consistentShuffle(
                         SubSeq(al0, SepsLength(Len(al0)) - Len(seps1) + 1, Len(al0)),
                         salt0),
                     seps1 \o SubSeq(al0, 1, SepsLength(Len(al0)) - Len(seps1)))
            ELSE TakeGuards(consistentShuffle(al0, salt0),
                            SubSeq(seps1, 1, SepsLength(Len(al0))))
    IN  TopUp(SelectSeq(alphabet0, LAMBDA c : ~Contains(sepsOriginal, c)),
              consistentShuffle(
                  SelectSeq(sepsOriginal, LAMBDA c : Contains(alphabet0, c)), salt0))

newHashIDs == NewWithData(alphabet, salt, minLength)

\* go-hashids hash: the digits of input in base len(al), most significant first
RECURSIVE hash(_, _)
hash(input, al) ==
    IF input \div Len(al) = 0 THEN <<al[(input % Len(al)) + 1]>>
    ELSE hash(input \div Len(al), al) \o <<al[(input % Len(al)) + 1]>>

\* go-hashids unhash: -1 stands for the error on a character outside al
RECURSIVE unhash(_, _, _)
unhash(input, al, result) ==
    IF input = <<>> THEN result
    ELSE IF ~Contains(al, Head(input)) THEN 0 - 1
    ELSE unhash(Tail(input), al, result * Len(al) + (IndexOf(al, Head(input)) - 1))

RECURSIVE numbersHashFrom(_, _)
numbersHashFrom(numbers, i) ==
    IF i > Len(numbers) THEN 0
    ELSE (numbers[i] % (i + 99)) + numbersHashFrom(numbers, i + 1)

\* the loop of EncodeInt64 over the numbers, from the i-th on
RECURSIVE EncodeFrom(_, _, _, _, _)
EncodeFrom(h, numbers, i, lottery, st) ==
    LET Sep(hashBuf) ==
            IF i < Len(numbers)
            THEN <<h.seps[((numbers[i] % (Ord[hashBuf[1]] + (i - 1))) % Len(h.seps)) + 1]>>
            ELSE <<>>
        Hashed(al, hashBuf) ==
            EncodeFrom(h, numbers, i + 1, lottery,
                       [alphabet |-> al, result |-> st.result \o hashBuf \o Sep(hashBuf)])
        Shuffled(al) == Hashed(al, hash(numbers[i], al))
    IN  IF i > Len(numbers) THEN st
        ELSE Shuffled(consistentShuffle(
                 st.alphabet,
                 SubSeq(<<lottery>> \o h.salt \o st.alphabet, 1, Len(st.alphabet))))

\* the padding loop of EncodeInt64
RECURSIVE Pad(_, _, _)
Pad(h, al, result) ==
    LET Cut(wide) ==
            IF Len(wide) - h.minLength > 0
            THEN SubSeq(wide, ((Len(wide) - h.minLength) \div 2) + 1,
                        ((Len(wide) - h.minLength) \div 2) + h.minLength)
            ELSE wide
        Widen(shuffled) ==
            Pad(h, shuffled,
                Cut(SubSeq(shuffled, (Len(al) \div 2) + 1, Len(shuffled)) \o result
                        \o SubSeq(shuffled, 1, Len(al) \div 2)))
    IN  IF Len(result) >= h.minLength THEN result
        ELSE Widen(consistentShuffle(al, al))

\* go-hashids Encode / EncodeInt64
Encode(h, numbers) ==
    LET Guard(numbersHash, c) ==
            h.guards[((numbersHash + Ord[c]) % Len(h.guards)) + 1]
        Second(numbersHash, r1) ==
            IF Len(r1) < h.minLength THEN r1 \o <<Guard(numbersHash, r1[3])>> ELSE r1
        First(numbersHash, r0) ==
            IF Len(r0) < h.minLength
            THEN Second(numbersHash, <<Guard(numbersHash, r0[1])>> \o r0)
            ELSE r0
        Finish(numbersHash, st) ==
            [hash |-> Pad(h, st.alphabet, First(numbersHash, st.result)), err |-> "none"]
        Start(numbersHash, lottery) ==
            Finish(numbersHash,
                   EncodeFrom(h, numbers, 1, lottery,
                              [alphabet |-> h.alphabet, result |-> <<lottery>>]))
        Hashed(numbersHash) ==
            Start(numbersHash, h.alphabet[(numbersHash % Len(h.alphabet)) + 1])
    IN  IF numbers = <<>> \/ \E i \in DOMAIN numbers : numbers[i] < 0
        THEN [hash |-> <<>>, err |-> "encode"]
        ELSE Hashed(numbersHashFrom(numbers, 1))

\* go-hashids splitRunes: the pieces of input between characters of seps
RECURSIVE splitRunes(_, _)
splitRunes(input, seps) ==
    IF \A i \in DOMAIN input : ~Contains(seps, input[i]) THEN <<input>>
    ELSE LET k == CHOOSE i \in DOMAIN input :
                      /\ Contains(seps, input[i])
                      /\ \A j \in 1..(i - 1) : ~Contains(seps, input[j])
         IN  <<SubSeq(input, 1, k - 1)>>
                 \o splitRunes(SubSeq(input, k + 1, Len(input)), seps)

\* the loop of DecodeInt64WithError over the pieces of the token
RECURSIVE DecodeFrom(_, _, _, _, _)
DecodeFrom(h, hashes, i, lottery, al) ==
    LET Shuffled(shuffled) ==
            <<unhash(hashes[i], shuffled, 0)>>
                \o DecodeFrom(h, hashes, i + 1, lottery, shuffled)
    IN  IF i > Len(hashes) THEN <<>>
        ELSE Shuffled(consistentShuffle(
                 al, SubSeq(<<lottery>> \o h.salt \o al, 1, Len(al))))

\* the numbers a token's characters stand for, before the token is verified
DecodeNumbers(h, hash0) ==
    LET Breakdown(hashBreakdown) ==
            IF hashBreakdown = <<>> THEN <<>>
            ELSE DecodeFrom(h, splitRunes(Tail(hashBreakdown), h.seps), 1,
                            Head(hashBreakdown), h.alphabet)
        Pieces(hashes) ==
            Breakdown(IF Len(hashes) \in {2, 3} THEN hashes[2] ELSE hashes[1])
    IN  Pieces(splitRunes(hash0, h.guards))

\* go-hashids DecodeWithError: the decoded numbers are encoded again and the
\* token is accepted only when that gives back the token
DecodeWithError(h, hash0) ==
    LET Verified(result) ==
            IF \E i \in DOMAIN result : result[i] < 0
            THEN [ids |-> <<>>, err |-> "alphabet"]
            ELSE IF Encode(h, result).hash # hash0
            THEN [ids |-> <<>>, err |-> "mismatch"]
            ELSE [ids |-> result, err |-> "none"]
    IN  Verified(DecodeNumbers(h, hash0))

\* hash.HashID, part_007 lines 24-34: "" when the encoder fails
HashIDNarrow(id) == Encode(newHashIDs, <<id % 128>>).hash
HashID(id) == Encode(newHashIDs, <<id>>).hash

\* hash.DecodeHashID, part_007 lines 37-50
DecodeHashIDFirst(hash0) ==
    LET Decoded(d) ==
            IF d.err # "none" THEN [id |-> 0, err |-> "invalid hash format"]
            ELSE IF Len(d.ids) < 1 THEN [id |-> 0, err |-> "invalid hash"]
            ELSE [id |-> d.ids[1], err |-> "none"]
    IN  Decoded(DecodeWithError(newHashIDs, hash0))
DecodeHashID(hash0) ==
    LET Decoded(d) ==
            IF d.err # "none" THEN [id |-> 0, err |-> "invalid hash format"]
            ELSE IF Len(d.ids) # 1 THEN [id |-> 0, err |-> "invalid hash"]
            ELSE [id |-> d.ids[1], err |-> "none"]
    IN  Decoded(DecodeWithError(newHashIDs, hash0))

\* ------------------------------------------------------------------ users
\* A password is the text the user types, kept as a sequence of its parts.
\* bcrypt.GenerateFromPassword: the hash is a text made from the password, and
\* bcrypt.CompareHashAndPassword accepts exactly the password it was made from.
HashPassword(password) == <<"bcrypt">> \o password
CompareHashAndPassword(hashed, password) == hashed = HashPassword(password)

\* c.Bind(&user) of AdminHandler.CreateUser fills entities.User from the body:
\* ID (json:"id", 0 when the body has none), Username, TenantID and the nested
\* Tenant (json:"tenant", the empty set when the body has none, else the id of
\* the nested object, 0 when it has none); Password is tagged json:"-", so the
\* password of the body does not reach the entity
BindKeepsPassword(body) ==
    [id |-> body.id, username |-> body.username, password |-> body.password,
     tenant_id |-> body.tenant_id, tenant |-> body.tenant]
Bind(body) ==
    [id |-> body.id, username |-> body.username, password |-> <<>>,
     tenant_id |-> body.tenant_id, tenant |-> body.tenant]

\* Login lines 49-61: the claims of the JWT; tenant_id is added only when the
\* user row has a tenant
Claims(id, user) ==
    [user_id |-> id,
     tenant_id |-> IF user.tenant_id # Null THEN HashID(user.tenant_id) ELSE <<>>]

\* router SuccessHandler lines 75-98: the tenant put into the request context;
\* a missing or undecodable claim leaves the context without tenant
ContextTenantDefaulted(token) ==
    IF token.tenant_id # <<>> /\ DecodeHashID(token.tenant_id).err = "none"
    THEN DecodeHashID(token.tenant_id).id ELSE 1
ContextTenant(token) ==
    IF token.tenant_id # <<>> /\ DecodeHashID(token.tenant_id).err = "none"
    THEN DecodeHashID(token.tenant_id).id ELSE NoTenant

\* userRepository.GetByUsername lines 27-47 and GetByID lines 50-63 for a
\* context without tenant: the row is sought by name or by id alone
UserGetByUsername(username) ==
    {id \in DOMAIN users : users[id].username = username}
UserGetByID(id) ==
    IF id \in DOMAIN users
    THEN [id |-> id, username |-> users[id].username, password |-> users[id].password,
          tenant_id |-> users[id].tenant_id]
    ELSE NoUser

\* UNIQUE index on users.username
UniqueUsernameViolated(table, id, username) ==
    \E k \in DOMAIN table \ {id} : table[k].username = username

UserColumns(row, table, id) ==
    [username |-> row.username, password |-> row.password, tenant_id |-> row.tenant_id,
     createdUnder |-> IF id \in DOMAIN table THEN table[id].createdUnder
                      ELSE row.tenant_id]

\* userRepository.Create lines 66-80: the tenant of the context, when there is
\* one, is stamped on the entity; INSERT INTO users under the entity's id, or
\* under the next id of the table when it has none.  The INSERT is refused
\* under an id or a name another row holds and under a tenant the tenants table
\* (table) does not hold.  An id taken from the counter is used up whether or
\* not the insert succeeds.
UserInsertId(row) == IF row.id = 0 THEN nextUserID ELSE row.id
UserInsertFails(row, table) ==
    \/ UserInsertId(row) \in DOMAIN users
    \/ UniqueUsernameViolated(users, UserInsertId(row), row.username)
    \/ (row.tenant_id # Null /\ row.tenant_id \notin table)
UserInsert(row, table) ==
    IF UserInsertFails(row, table) THEN users
    ELSE (UserInsertId(row) :> UserColumns(row, users, UserInsertId(row))) @@ users
UserCounterAfter(row, table) ==
    IF row.id = 0 THEN NextAutoIncrement(nextUserID)
    ELSE IF UserInsertFails(row, table) THEN nextUserID
    ELSE IF row.id >= nextUserID THEN row.id + 1 ELSE nextUserID

\* userRepository.Create lines 70-72 and userRepository.Update lines 110-112:
\* the tenant of the context, when there is one, is stamped on the entity
\* before it is inserted or saved
StampTenant(row, tenant) ==
    IF tenant # NoTenant THEN [row EXCEPT !.tenant_id = tenant] ELSE row

\* cmd/seed, part_024 lines 79-98: the user admin, password admin123, without
\* tenant, is created through userRepository.Create; an error is only logged
SeedUser ==
    [id |-> 0, username |-> "admin", password |-> HashPassword(<<"admin123">>),
     tenant_id |-> Null]
Seed ==
    /\ nextUserID \in UserIds
    /\ users' = UserInsert(SeedUser, tenants)
    /\ nextUserID' = UserCounterAfter(SeedUser, tenants)
    /\ UNCHANGED <<catalog, sales, tenants, nextTenantID, tokens, sqlMode, call,
                   productOps, lastRead>>

\* userRepository.Create lines 66-80 called the way cmd/seed calls it, with an
\* entity that has no id and holds the hash of its password, here under a
\* context that carries a tenant: the tenant is stamped on the entity (lines
\* 70-72) and the row inserted.  The users POST /admin/users creates hold the
\* hash of a hash, which no typed password matches; a user created this way can
\* log in.
TenantUser(username, password) ==
    [id |-> 0, username |-> username, password |-> HashPassword(password),
     tenant_id |-> Null]
UserRepositoryCreate(tenant, user, budget) ==
    /\ productOps < budget
    /\ productOps' = productOps + 1
    /\ nextUserID \in UserIds
    /\ TenantRowFree(tenant)
    /\ users' = UserInsert(StampTenant(user, tenant), tenants)
    /\ nextUserID' = UserCounterAfter(StampTenant(user, tenant), tenants)
    /\ UNCHANGED <<catalog, sales, tenants, nextTenantID, tokens, sqlMode, call, lastRead>>

\* POST /auth/login, authService.Login lines 32-71: the user is read by name,
\* the password compared and a token issued
Login(username, password) ==
    /\ Quiescent
    /\ Cardinality(tokens) < MaxTokens
    /\ \E id \in UserGetByUsername(username) :
          /\ CompareHashAndPassword(users[id].password, password)
          /\ tokens' = tokens \cup {Claims(id, users[id])}
    /\ UNCHANGED <<catalog, sales, tenants, nextTenantID, users, nextUserID, sqlMode,
                   call, productOps, lastRead>>

\* PUT /api/update-password, authService.UpdatePassword lines 146-170: the user of
\* the token is read by id alone, the current password compared with the row
\* read and the new hash put into the entity
UpdatePassword(p, token, current, new, budget) ==
    /\ call[p].pc = "idle"
    /\ productOps < budget
    /\ productOps' = productOps + 1
    /\ LET c == [IdleCall EXCEPT !.tenant = ContextTenant(token),
                                 !.read = [NoRead EXCEPT !.op = "UpdatePassword",
                                                         !.ids = <<token.user_id>>]]
           user == UserGetByID(token.user_id) IN
       call' = [call EXCEPT ![p] =
          IF user.id = 0 THEN Finished(c, "user_not_found")
          ELSE IF ~CompareHashAndPassword(user.password, current)
               THEN Finished([c EXCEPT !.user = user], "invalid_current_password")
          ELSE [c EXCEPT !.pc = "save_user",
                         !.user = [user EXCEPT !.password = HashPassword(new)]]]
    /\ UNCHANGED <<catalog, sales, accounts, sqlMode, lastRead>>

\* authService.UpdatePassword lines 171-177 with userRepository.Update: the
\* entity read earlier is stamped and saved whole.  Save first sends UPDATE
\* users SET <every column> WHERE id = ? AND tenant_id = ?, with the tenant of
\* the context: a row that has the id and the tenant is rewritten, or the
\* UPDATE is refused when it would give the row a name another row holds.
\* Under a context without tenant (tenant_id = NULL) and when no row has the id
\* and the tenant, no row is affected, and Save goes on with a second statement
\* (SaveUserInsert); other requests run between the two.
SaveUser(p) ==
    /\ call[p].pc = "save_user"
    /\ LET row == StampTenant(call[p].user, call[p].tenant)
           tenant == call[p].tenant
           matched == /\ row.id \in DOMAIN users
                      /\ tenant # NoTenant
                      /\ users[row.id].tenant_id # Null
                      /\ users[row.id].tenant_id = tenant
           taken == UniqueUsernameViolated(users, row.id, row.username)
       IN
       /\ users' = IF matched /\ ~taken
                   THEN [users EXCEPT ![row.id] = UserColumns(row, users, row.id)]
                   ELSE users
       /\ call' = [call EXCEPT ![p] =
             IF matched
             THEN [Finished(call[p], IF taken THEN "persistence_failure" ELSE "ok")
                      EXCEPT !.dbChanged = users' # users]
             ELSE [call[p] EXCEPT !.pc = "upsert_user"]]
    /\ UNCHANGED <<catalog, sales, tenants, nextTenantID, nextUserID, tokens, sqlMode,
                   productOps, lastRead>>

\* the second statement of Save: INSERT INTO users ... ON DUPLICATE KEY UPDATE
\* <every column>, which has no WHERE.  On the table as it is by now it
\* rewrites the row with the id, whatever its tenant, or inserts the row, or
\* (the id free and the name taken) rewrites the row holding the name; it is
\* refused when the rewritten row would take the name of another row and under
\* a tenant the tenants table does not hold.
SaveUserInsert(p) ==
    /\ call[p].pc = "upsert_user"
    /\ LET row == StampTenant(call[p].user, call[p].tenant)
           taken == UniqueUsernameViolated(users, row.id, row.username)
           holder == CHOOSE k \in DOMAIN users : users[k].username = row.username
           failed == (taken /\ row.id \in DOMAIN users)
                     \/ (row.tenant_id # Null /\ row.tenant_id \notin tenants)
       IN
       /\ TenantRowFree(row.tenant_id)
       /\ users' =
            IF failed THEN users
            ELSE IF row.id \in DOMAIN users
                 THEN [users EXCEPT ![row.id] = UserColumns(row, users, row.id)]
            ELSE IF taken
                 THEN [users EXCEPT ![holder] = UserColumns(row, users, holder)]
            ELSE (row.id :> UserColumns(row, users, row.id)) @@ users
       /\ call' = [call EXCEPT ![p] =
                     [Finished(call[p], IF failed THEN "persistence_failure" ELSE "ok")
                        EXCEPT !.dbChanged = users' # users]]
    /\ UNCHANGED <<catalog, sales, tenants, nextTenantID, nextUserID, tokens, sqlMode,
                   productOps, lastRead>>

\* the bodies of POST /admin/users: with or without an id, with or without
\* tenant_id, and without nested tenant object ({}), with one that has no id
\* ({0}) or with one that has the id 2 ({2})
UserBodies ==
    [id : {0, 2}, username : Usernames, password : {<<"admin123">>},
     tenant_id : Tenants \cup {Null}, tenant : {{}, {0}, {2}}]

UserAnswer(ids, err) ==
    [op |-> "AdminCreateUser", tenant |-> NoTenant, ids |-> ids, total |-> 0, err |-> err]

\* POST /admin/users, AdminHandler.CreateUser lines 147-171 with
\* authService.CreateUser lines 126-143: a body without tenant_id is refused;
\* the password of the entity is hashed by the handler and hashed again by the
\* service; the context carries no tenant, so userRepository.Create keeps the
\* entity's.  gorm's Create runs in a transaction of its own.  For an entity
\* without nested tenant it is one statement, the INSERT of the user.  For an
\* entity with a nested tenant (a belongs-to association) it first sends INSERT
\* INTO tenants ... ON DUPLICATE KEY UPDATE id = id, under the nested tenant's
\* id or, when it has none, under the next id of tenants: the row is inserted,
\* or the row that has the id is left as it is, and either way it is locked.
\* The id is put into the entity's tenant_id.  The INSERT of the user is a
\* second statement (AdminCreateUserInsert), and other requests run between
\* the two; an inserted tenants row is not visible to them before the commit.
AdminCreateUser(p, body, budget) ==
    /\ call[p].pc = "idle"
    /\ productOps < budget
    /\ UserInsertId(body) \in UserIds
    /\ body.tenant = {0} => nextTenantID \in Tenants
    /\ productOps' = productOps + 1
    /\ LET user == Bind(body)
           row == [id |-> user.id, username |-> user.username,
                   password |-> HashPassword(HashPassword(user.password)),
                   tenant_id |-> user.tenant_id]
           nested == IF user.tenant = {0} THEN nextTenantID
                     ELSE CHOOSE id \in user.tenant : TRUE
       IN
       IF user.tenant_id = Null
       THEN /\ lastRead' = UserAnswer(<<>>, "bad_request")
            /\ UNCHANGED <<users, nextUserID, tenants, nextTenantID, call>>
       ELSE IF user.tenant = {}
       THEN /\ TenantRowFree(row.tenant_id)
            /\ users' = UserInsert(row, tenants)
            /\ nextUserID' = UserCounterAfter(row, tenants)
            /\ lastRead' = IF UserInsertFails(row, tenants) THEN UserAnswer(<<>>, "internal")
                           ELSE UserAnswer(<<UserInsertId(row)>>, "none")
            /\ UNCHANGED <<tenants, nextTenantID, call>>
       ELSE /\ TenantRowFree(nested)
            /\ call' = [call EXCEPT ![p] =
                          [IdleCall EXCEPT !.pc = "insert_user",
                                           !.user = [row EXCEPT !.tenant_id = nested],
                                           !.row = [id |-> nested]]]
            /\ nextTenantID' = IF nested \in tenants THEN nextTenantID
                               ELSE AutoIncrementAfter(nextTenantID, nested)
            /\ UNCHANGED <<users, nextUserID, tenants, lastRead>>
    /\ UNCHANGED <<catalog, sales, tokens, sqlMode>>

\* the second statement of a Create with a nested tenant: INSERT INTO users
\* under the entity's id, or under the next id of users as it is by now, and
\* the commit, which makes an inserted tenants row visible.  An INSERT that
\* fails is answered 500 and rolls an inserted tenants row back; the ids taken
\* from the counters are not given back.
AdminCreateUserInsert(p) ==
    /\ call[p].pc = "insert_user"
    /\ lastRead = NoRead
    /\ LET row == call[p].user
           staged == tenants \cup {call[p].row.id}
       IN /\ users' = UserInsert(row, staged)
          /\ nextUserID' = UserCounterAfter(row, staged)
          /\ tenants' = IF UserInsertFails(row, staged) THEN tenants ELSE staged
          /\ lastRead' = IF UserInsertFails(row, staged) THEN UserAnswer(<<>>, "internal")
                         ELSE UserAnswer(<<UserInsertId(row)>>, "none")
    /\ call' = [call EXCEPT ![p] = IdleCall]
    /\ UNCHANGED <<catalog, sales, nextTenantID, tokens, sqlMode, productOps>>
\* ------------------------------------------------------------ the opening
\* Before the requests of a specification arrive the shop is opened: the
\* administrator creates the first tenant (POST /admin/tenants, which gets the
\* id 1) and the tenant enters its price list, one product after the other
\* (POST /api/products under tenant 1).
Opened == nextProductID > Len(Catalogue)
Ready == Opened /\ NoResponsePending

\* the product and repository operations a specification starts after the
\* opening
ProductBudget == Len(Catalogue) + MaxProductOps
CatalogBudget == Len(Catalogue) + MaxCatalogOps

OpenNext ==
    \/ nextTenantID = 1 /\ NoResponsePending /\ CreateTenant([id |-> 0, created_at |-> 0])
    \/ \E p \in Procs :
          \/ /\ ~Opened
             /\ tenants # {}
             /\ Quiescent
             /\ CreateProduct(p, 1, Catalogue[nextProductID], Len(Catalogue))
          \/ ~Opened /\ InsertProduct(p)
          \/ Return(p)
    \/ Respond

\* sales with every request line and discount of the model, on a database whose
\* statements may fail
SaleNext ==
    \E p \in Procs :
        \/ Ready /\ CreateTransaction(p)
        \/ Return(p)

Next == OpenNext \/ SaleNext

Spec == Init /\ [][Next]_vars

\* ------------------------------------------------------------ request mixes
\* sales of single units without discount, product updates and reads
PlainLines == [product_id : ProductIds \cup {MissingProductId}, quantity : {1}]

\* no other goroutine is inside CreateTransaction
OneSale(p) == \A q \in Procs \ {p} : call[q].pc \notin InTx \cup {"reread"}

PlainSaleNext ==
    \E p \in Procs :
        \/ Ready /\ OneSale(p) /\ CreateTransactionOn(p, PlainLines, {0})
        \/ Return(p)

ProductNext ==
    \E p \in Procs :
        \/ Ready /\ \E tenant \in Scopes, id \in ProductIds \cup {MissingProductId},
                                   updates \in ProductUpdates :
                                     UpdateProduct(p, tenant, id, updates, ProductBudget)
        \/ Ready /\ \E tenant \in Scopes, id \in ProductIds \cup {MissingProductId},
                                   stock \in Stocks :
                                     UpdateStock(p, tenant, id, stock, ProductBudget)
        \/ Ready /\ SaveProduct(p)
        \/ Ready /\ SaveProductInsert(p)

ReadNext ==
    \/ \E tenant \in Scopes, id \in ProductIds \cup {NewProductId, MissingProductId} :
            GetProduct(tenant, id)
    \/ \E tenant \in Scopes, id \in TransactionIds : GetTransaction(tenant, id)
    \/ \E p \in Procs :
          \/ Ready /\ \E tenant \in Scopes, page \in Pages, limit \in Limits :
                                     ListProducts(p, tenant, page, limit)
          \/ FindProducts(p)
          \/ Ready /\ \E tenant \in Scopes, page \in Pages, limit \in Limits :
                                     ListTransactions(p, tenant, page, limit)
          \/ FindTransactions(p)
    \/ Respond

\* the administrator opens a second tenant, tenants are updated and deleted,
\* and a product is created
TenantRequests == [sku : {"KOP001"}, stock : {1}, harga_jual : {999999}]

TenantNext ==
    \/ Ready /\ \E body \in TenantBodies : CreateTenant(body)
    \/ \E p \in Procs :
          \/ Ready /\ \E path \in {0} \cup Tenants, body \in TenantBodies :
                                     UpdateTenant(p, path, body)
          \/ UpdateTenantInsert(p)
    \/ Ready /\ \E id \in Tenants : DeleteTenant(id)

ProvisionNext ==
    \/ TenantNext
    \/ \E p \in Procs :
          \/ Ready /\ \E tenant \in Tenants, req \in TenantRequests :
                                     CreateProduct(p, tenant, req, ProductBudget)
          \/ Ready /\ InsertProduct(p)

\* every request of the transaction and product services
NextAll == PlainSaleNext \/ ProductNext

SpecAll == Init /\ [][OpenNext \/ NextAll]_vars

\* sales of one unit of NAS001, one at a time, on a database whose connection
\* does not fail
UnitLines == [product_id : {1}, quantity : {1}]

UnitSaleNext ==
    \E p \in Procs :
        \/ Ready /\ OneSale(p)
              /\ CreateTransactionSteps(p, UnitLines, {0}, {Midnight(1)})
        \/ Return(p)

\* a product or stock update after the products have been created: the first
\* product of the price list or the product created last gets a new price or
\* a new stock
RestockNext ==
    \E p \in Procs :
        \/ Ready /\ \E tenant \in Tenants, id \in {1, NewProductId} :
                       UpdateProduct(p, tenant, id, "harga_jual" :> FromDecimal(999999),
                                     CatalogBudget)
        \/ Ready /\ \E tenant \in Tenants, id \in {1, NewProductId} :
                       UpdateStock(p, tenant, id, 1, CatalogBudget)
        \/ Ready /\ SaveProduct(p)
        \/ Ready /\ SaveProductInsert(p)

\* one sale of one unit of NAS001, on a database whose connection does not
\* fail: a call starts while no sale is committed
FirstSaleNext ==
    \E p \in Procs :
        \/ Ready /\ OneSale(p) /\ (Len(transactions) = 0 \/ call[p].pc = "reread")
              /\ CreateTransactionSteps(p, UnitLines, {0}, {Midnight(1)})
        \/ Return(p)

\* the reads, while tenants are created, updated and deleted, products are
\* created and updated, stocks are set and a unit is sold
SpecReads ==
    Init /\ [][OpenNext \/ ReadNext \/ ProvisionNext \/ RestockNext \/ FirstSaleNext]_vars

\* the repository methods that no service calls, and the users the
\* administrator creates
RepositoryNext ==
    \/ Ready /\ \E tenant \in Scopes, id \in ProductIds :
                               ProductRepositoryDelete(tenant, id, CatalogBudget)
    \/ Ready /\ \E tenant \in Scopes, id \in ProductIds, stock \in Stocks :
                               ProductRepositoryUpdateStock(tenant, id, stock, CatalogBudget)
    \/ Ready /\ \E tenant \in Scopes, id \in TransactionIds :
                               TransactionRepositoryDelete(tenant, id, CatalogBudget)
    \/ Ready /\ \E tenant \in Scopes, entity \in TransactionEntities :
                               TransactionRepositoryCreate(tenant, entity, CatalogBudget)
    \/ Ready /\ \E tenant \in Scopes, id \in UserIds :
                               UserRepositoryDelete(tenant, id, CatalogBudget)
    \/ \E p \in Procs :
          \/ Ready /\ \E tenant \in Scopes, entity \in TransactionEntities :
                  TransactionRepositoryUpdate(p, tenant, entity, CatalogBudget)
          \/ TransactionRepositoryUpdateInsert(p)
          \/ Ready /\ \E body \in UserBodies : AdminCreateUser(p, body, CatalogBudget)
          \/ AdminCreateUserInsert(p)
    \/ Respond

\* the same while products are updated and units are sold
SpecRepository == Init /\ [][OpenNext \/ RepositoryNext \/ ProductNext \/ UnitSaleNext]_vars

\* sales, and updates of product fields other than the stock: a new price, or
\* the price the first product of the price list has
FieldUpdates == ProductUpdates \cup {"harga_jual" :> FromDecimal(Catalogue[1].harga_jual)}

FieldUpdateNext ==
    \/ PlainSaleNext
    \/ \E p \in Procs :
          \/ Ready /\ \E tenant \in Scopes, id \in ProductIds,
                                     updates \in FieldUpdates :
                                       UpdateProduct(p, tenant, id, updates, ProductBudget)
          \/ Ready /\ SaveProduct(p)
          \/ Ready /\ SaveProductInsert(p)

SpecFieldUpdate == Init /\ [][OpenNext \/ FieldUpdateNext]_vars


\* sales of single units of the products of the price list, running together
\* on a database whose statements may fail: the statements of one call's
\* tx.Create run between those of the other's
ListedLines == [product_id : ProductIds, quantity : {1}]

TogetherNext ==
    \E p \in Procs :
        \/ Ready /\ CreateTransactionOn(p, ListedLines, {0})
        \/ Return(p)

SpecTogether == Init /\ [][OpenNext \/ TogetherNext]_vars
\* ----------------------------------------------------------------- paging
\* the page and limit parameters of list requests: below, at, inside, at and
\* above the bounds
AnyPages == (0 - 1)..MaxPage
AnyLimits == ((0 - 1)..MaxItems) \cup ((MaxListLimit - 1)..(MaxListLimit + MaxItems))
                \cup {DefaultListLimit}

PagingNext ==
    \/ \E p \in Procs :
          \/ Ready /\ \E tenant \in Scopes, page \in AnyPages, limit \in AnyLimits :
                                     ListProducts(p, tenant, page, limit)
          \/ FindProducts(p)
          \/ Ready /\ \E tenant \in Scopes, page \in AnyPages, limit \in AnyLimits :
                                     ListTransactions(p, tenant, page, limit)
          \/ FindTransactions(p)
    \/ Respond

SpecPaging == Init /\ [][OpenNext \/ PagingNext]_vars

\* ---------------------------------------------------------------- reports
\* the dates of a request, the instants of the clock, and NoDate for a missing
\* or unparsable date parameter
Dates == 1..MaxDates
NoDate == Null
Instants == {Midnight(d) + s : d \in Dates, s \in {0, 23 * Hour + 59 * Minute + 59}}

\* ReportHandler.GetSalesReport, part_005 line 259: the end of the end date's day
EndOfDayUnadjusted(t) == t
EndOfDay(t) == t + 23 * Hour + 59 * Minute + 59

\* transactionRepository.GetReportData, WHERE and JOINs: the items of the
\* transactions created in [startDate, endDate] whose tenant_id equals the
\* context's tenant (never true of NULL), with a products row to join
ReportRows(tenant, startDate, endDate) ==
    {i \in 1..Len(transactions) :
        /\ transactions[i].created_at >= startDate
        /\ transactions[i].created_at <= endDate
        /\ tenant # NoTenant
        /\ transactions[i].tenant_id # Null
        /\ transactions[i].tenant_id = tenant}

RECURSIVE SumOf(_, _, _)
SumOf(its, id, priced) ==
    IF its = <<>> THEN 0
    ELSE (IF Head(its).product_id = id /\ id \in DOMAIN products
          THEN (IF priced THEN Head(its).price * Head(its).quantity
                ELSE Head(its).quantity)
          ELSE 0)
         + SumOf(Tail(its), id, priced)

RECURSIVE SumOver(_, _, _)
SumOver(rows, id, priced) ==
    IF rows = {} THEN 0
    ELSE LET i == CHOOSE x \in rows : TRUE
         IN  SumOf(transactions[i].items, id, priced) + SumOver(rows \ {i}, id, priced)

\* the ids of the items of a product in the rows
ItemIds(rows, id) ==
    UNION {{transactions[i].items[k].id :
               k \in {n \in DOMAIN transactions[i].items :
                         transactions[i].items[n].product_id = id}} : i \in rows}

\* GROUP BY ti.product_id, p.name: one group per product, SUM(ti.quantity) and
\* SUM(ti.price * ti.quantity), an exact DECIMAL
ReportGroups(rows) ==
    {[product_id |-> id, total |-> SumOver(rows, id, FALSE),
      total_price |-> SumOver(rows, id, TRUE)] :
        id \in UNION {{transactions[i].items[k].product_id :
                           k \in DOMAIN transactions[i].items} : i \in rows}
                 \cap DOMAIN products}

\* ORDER BY total_price DESC: every order of the groups that is not increasing
\* in total_price (the order of groups with equal total_price is not fixed)
RECURSIVE Orders(_)
Orders(S) ==
    IF S = {} THEN {<<>>}
    ELSE UNION {{<<g>> \o rest : rest \in Orders(S \ {g})} :
                    g \in {x \in S : \A y \in S : x.total_price >= y.total_price}}

\* Scan(&reportDetails): the group as a ReportDetail.  total_price becomes a
\* float64; ti.id, which the statement selects bare, is the id of whichever
\* item of the group the server takes it from
RECURSIVE Details(_, _)
Details(groups, rows) ==
    IF groups = <<>> THEN {<<>>}
    ELSE {<<[id |-> i, product_id |-> Head(groups).product_id,
             total |-> Head(groups).total,
             total_price |-> FromDecimal(Head(groups).total_price)]>> \o rest :
             i \in ItemIds(rows, Head(groups).product_id),
             rest \in Details(Tail(groups), rows)}

\* transactionRepository.GetReportData lines 79-105.  The statement selects
\* ti.id, which is neither grouped nor aggregated: a server whose sql_mode holds
\* ONLY_FULL_GROUP_BY refuses it (error 1055) whatever the tables hold.
GetReportData(mode, tenant, startDate, endDate) ==
    IF mode = "ONLY_FULL_GROUP_BY" THEN [err |-> "1055", details |-> {<<>>}]
    ELSE LET Scanned(rows) ==
                 UNION {Details(groups, rows) : groups \in Orders(ReportGroups(rows))}
         IN  [err |-> "none", details |-> Scanned(ReportRows(tenant, startDate, endDate))]

\* reportService.GetSalesReport lines 35-48
RECURSIVE TotalRevenueFrom(_, _)
TotalRevenueFrom(details, sum) ==
    IF details = <<>> THEN sum
    ELSE TotalRevenueFrom(Tail(details), FAdd(sum, Head(details).total_price))
TotalRevenue(details) == TotalRevenueFrom(details, Zero)

RECURSIVE ItemsSold(_)
ItemsSold(details) ==
    IF details = <<>> THEN 0 ELSE Head(details).total + ItemsSold(Tail(details))

AverageTransactionPerUnit(totalRevenue, details) ==
    IF Len(details) > 0 THEN FDiv(totalRevenue, Float(ItemsSold(details)))
    ELSE Zero
AverageTransaction(totalRevenue, details) ==
    IF Len(details) > 0 THEN FDiv(totalRevenue, Float(Len(details)))
    ELSE Zero

\* GET /api/reports: ReportHandler.GetSalesReport lines 238-269 with
\* reportService.GetSalesReport and the repository's query; queried holds the
\* bounds passed to the query
GetSalesReport(tenant, startDate, endDate) ==
    /\ Quiescent
    /\ LET start == Midnight(startDate)
           end == EndOfDay(Midnight(endDate))
           refused == [op |-> "GetSalesReport", tenant |-> tenant,
                       start_date |-> startDate, end_date |-> endDate,
                       queried |-> <<>>, details |-> <<>>, totalRevenue |-> Zero,
                       itemsSold |-> 0, averageTransaction |-> Zero,
                       err |-> "bad_request"]
           Answered(data) ==
               IF data.err # "none"
               THEN lastRead' = [refused EXCEPT
                       !.queried = <<[startDate |-> start, endDate |-> end]>>,
                       !.err = "internal"]
               ELSE \E details \in data.details :
                       lastRead' = [refused EXCEPT
                           !.queried = <<[startDate |-> start, endDate |-> end]>>,
                           !.details = details,
                           !.totalRevenue = TotalRevenue(details),
                           !.itemsSold = ItemsSold(details),
                           !.averageTransaction =
                               AverageTransaction(TotalRevenue(details), details),
                           !.err = "none"]
       IN
       IF startDate = NoDate \/ endDate = NoDate \/ start > end
       THEN lastRead' = refused
       ELSE Answered(GetReportData(sqlMode, tenant, start, end))
    /\ UNCHANGED <<catalog, sales, accounts, sqlMode, call, productOps>>

\* sales one at a time at the instants of the clock, and reports
ReportNext ==
    \/ \E p \in Procs :
          \/ Ready /\ Alone(p)
                /\ CreateTransactionAt(p, PlainLines, {0}, Instants)
          \/ Return(p)
    \/ \E tenant \in Scopes, startDate \in Dates \cup {NoDate},
          endDate \in Dates \cup {NoDate} : GetSalesReport(tenant, startDate, endDate)
    \/ Respond

SpecReport == Init /\ [][OpenNext \/ ReportNext]_vars

\* reportService.GetSalesReport lines 25-58 on the details its repository
\* answers.  No request writes a transaction with a tenant reference
\* (NewTransaction), so the details the service can be handed are drawn from the
\* groups a GROUP BY ti.product_id can yield: one per product, each with a
\* quantity and a price sum.
DetailTotals == {1, 2, 51}
DetailPrices == {Catalogue[id].harga_jual : id \in ProductIds} \cup {999999}
ReportDetails ==
    [id : {1}, product_id : ProductIds, total : DetailTotals,
     total_price : {FromDecimal(price * total) : price \in DetailPrices,
                                                 total \in DetailTotals}]
DetailLists ==
    {<<>>} \cup {<<d>> : d \in ReportDetails}
           \cup {<<d, e>> : d \in {r \in ReportDetails : r.product_id = 1},
                            e \in {r \in ReportDetails : r.product_id = 2}}

ReportServiceGetSalesReport(details) ==
    /\ Quiescent
    /\ lastRead' = [op |-> "reportService.GetSalesReport", details |-> details,
                    totalRevenue |-> TotalRevenue(details),
                    itemsSold |-> ItemsSold(details),
                    averageTransaction |->
                        AverageTransaction(TotalRevenue(details), details),
                    err |-> "none"]
    /\ UNCHANGED <<catalog, sales, accounts, sqlMode, call, productOps>>

ReportServiceNext ==
    \/ \E details \in DetailLists : ReportServiceGetSalesReport(details)
    \/ Respond

SpecReportService == Init /\ [][ReportServiceNext]_vars
\* ---------------------------------------------------------------- storage
\* Go path.Clean on the elements of a path: empty elements and "." are
\* dropped, ".." removes the element before it; at the start of a relative
\* path ".." is kept, at the start of a rooted path it is dropped
RECURSIVE CleanElements(_, _, _)
CleanElements(elems, out, rooted) ==
    IF elems = <<>> THEN out
    ELSE IF Head(elems) = <<>> \/ Head(elems) = <<".">>
    THEN CleanElements(Tail(elems), out, rooted)
    ELSE IF Head(elems) = <<".", ".">>
    THEN IF out # <<>> /\ out[Len(out)] # <<".", ".">>
         THEN CleanElements(Tail(elems), SubSeq(out, 1, Len(out) - 1), rooted)
         ELSE CleanElements(Tail(elems), IF rooted THEN out ELSE Append(out, Head(elems)),
                            rooted)
    ELSE CleanElements(Tail(elems), Append(out, Head(elems)), rooted)

RECURSIVE JoinElements(_)
JoinElements(elems) ==
    IF elems = <<>> THEN <<>>
    ELSE IF Len(elems) = 1 THEN Head(elems)
    ELSE Head(elems) \o <<"/">> \o JoinElements(Tail(elems))

Clean(p) ==
    LET Rooted(body) == <<"/">> \o body
        Relative(body) == IF body = <<>> THEN <<".">> ELSE body
    IN  IF p = <<>> THEN <<".">>
        ELSE IF Head(p) = "/"
        THEN Rooted(JoinElements(CleanElements(splitRunes(p, <<"/">>), <<>>, TRUE)))
        ELSE Relative(JoinElements(CleanElements(splitRunes(p, <<"/">>), <<>>, FALSE)))

\* Go path.Join of two elements
PathJoin(a, b) ==
    IF a = <<>> /\ b = <<>> THEN <<>>
    ELSE IF a = <<>> THEN Clean(b)
    ELSE Clean(a \o <<"/">> \o b)

\* Client.getTenantIDFromContext, client.go lines 65-73
getTenantIDFromContext(tenant) ==
    IF tenant = NoTenant
    THEN [id |-> <<>>, err |-> "tenant ID not found in context"]
    ELSE [id |-> HashID(tenant), err |-> "none"]

\* Client.getTenantKey, client.go lines 76-82
getTenantKey(tenant, key) ==
    LET Keyed(t) ==
            IF t.err # "none" THEN [key |-> <<>>, err |-> t.err]
            ELSE [key |-> PathJoin(t.id, key), err |-> "none"]
    IN  Keyed(getTenantIDFromContext(tenant))

\* storage.GenerateImageKey, part_009 lines 13-29: products/{hash}_{timestamp}.{ext}
GenerateImageKey(productID, timestamp, ext) ==
    LET e == IF Len(ext) > 0 /\ Head(ext) = "." THEN Tail(ext) ELSE ext
    IN  <<"p","r","o","d","u","c","t","s">> \o <<"/">> \o HashID(productID) \o <<"_">> \o timestamp \o <<".">> \o e

\* the extensions a request names and the keys the callers pass to the client
Extensions == {<<"p","n","g">>, <<".">> \o <<"p","n","g">>, <<"x","/",".",".","/",".",".","/",".",".","/">> \o HashID(2) \o <<"/">> \o <<"p",".","p","n","g">>}
Timestamps == {<<"1">>}
StorageKeys ==
    {GenerateImageKey(id, ts, ext) : id \in 1..2, ts \in Timestamps, ext \in Extensions}
    \cup {<<>>, <<"p","r","o","d","u","c","t","s">> \o <<"/">> \o <<"p",".","p","n","g">>, <<"/">> \o <<"p",".","p","n","g">>,
          <<".", ".", "/">> \o HashID(2) \o <<"/">> \o <<"p",".","p","n","g">>}

\* what a Client method sends to the store: nothing when the context has no
\* tenant, else one request for the tenant's key
StorageRequest(op, tenant, key) ==
    /\ Quiescent
    /\ LET Sent(k) ==
               [op |-> op, tenant |-> tenant, key |-> key,
                sent |-> IF k.err = "none" THEN <<k.key>> ELSE <<>>,
                err |-> IF k.err = "none" THEN "none" ELSE "storage"] IN
       lastRead' = Sent(getTenantKey(tenant, key))
    /\ UNCHANGED <<catalog, sales, accounts, sqlMode, call, productOps>>

\* client.go lines 85-97, 106-117, 131-142, 145-172, 175-204
ClientUpload(tenant, key) == StorageRequest("upload", tenant, key)
ClientDownload(tenant, key) == StorageRequest("download", tenant, key)
ClientDelete(tenant, key) == StorageRequest("delete", tenant, key)
ClientList(tenant, prefix) == StorageRequest("list", tenant, prefix)
GeneratePresignedURL(tenant, key) == StorageRequest("presign", tenant, key)

StorageOps == {"upload", "download", "delete", "list", "presign"}

StorageNext ==
    \/ \E tenant \in Scopes, key \in StorageKeys : ClientUpload(tenant, key)
    \/ \E tenant \in Scopes, key \in StorageKeys : ClientDownload(tenant, key)
    \/ \E tenant \in Scopes, key \in StorageKeys : ClientDelete(tenant, key)
    \/ \E tenant \in Scopes, key \in StorageKeys : ClientList(tenant, key)
    \/ \E tenant \in Scopes, key \in StorageKeys : GeneratePresignedURL(tenant, key)
    \/ Respond

SpecStorage == Init /\ [][StorageNext]_vars

\* the ids that are encoded, and the strings that are offered for decoding:
\* tokens of ids, tokens with one character replaced, shortened and lengthened
\* tokens, tokens of two values, tokens made with another salt, short strings
HashedIds == 0..MaxHashedId
EditedIds == 0..MaxItems
otherSalt == <<"_","_","m","o","v","e","_","_">>
otherHashIDs == NewWithData(alphabet, otherSalt, minLength)
TokenChars == Range(alphabet) \cup {"a", "_"}
CandidateTokens ==
    {HashID(x) : x \in HashedIds}
    \cup {[HashID(x) EXCEPT ![i] = c] :
              x \in EditedIds, i \in 1..minLength, c \in TokenChars}
    \cup {SubSeq(HashID(x), i, j) : x \in EditedIds, i \in 1..minLength, j \in 0..minLength}
    \cup {HashID(x) \o <<c>> : x \in EditedIds, c \in TokenChars}
    \cup {Encode(newHashIDs, <<x, y>>).hash : x \in EditedIds, y \in EditedIds}
    \cup {Encode(otherHashIDs, <<x>>).hash : x \in HashedIds}
    \cup {<<c>> : c \in TokenChars}
    \cup {<<c, d>> : c \in TokenChars, d \in TokenChars}

\* a call of hash.HashID and a call of hash.DecodeHashID, with what they return
CallHashID(id) ==
    /\ Quiescent
    /\ lastRead' = [op |-> "HashID", id |-> id, hash |-> HashID(id), err |-> "none"]
    /\ UNCHANGED <<catalog, sales, accounts, sqlMode, call, productOps>>

CallDecodeHashID(hash0) ==
    /\ Quiescent
    /\ LET Returned(d) ==
               [op |-> "DecodeHashID", hash |-> hash0, id |-> d.id, err |-> d.err] IN
       lastRead' = Returned(DecodeHashID(hash0))
    /\ UNCHANGED <<catalog, sales, accounts, sqlMode, call, productOps>>

HashNext ==
    \/ \E id \in HashedIds : CallHashID(id)
    \/ \E hash0 \in CandidateTokens : CallDecodeHashID(hash0)
    \/ Respond

SpecHash == Init /\ [][HashNext]_vars

\* ----------------------------------------------------------------- catalog
\* product creation, product updates that may change the SKU, stock updates,
\* and the administrator creating, updating and deleting tenants
CatalogUpdates == ProductUpdates \cup {("sku" :> sku) : sku \in Skus}

CatalogNext ==
    \/ TenantNext
    \/ \E p \in Procs :
        \/ Ready /\ \E tenant \in Scopes, req \in CreateRequests :
                                     CreateProduct(p, tenant, req, CatalogBudget)
        \/ Ready /\ InsertProduct(p)
        \/ Ready /\ \E tenant \in Scopes, id \in ProductIds \cup {MissingProductId},
                                   updates \in CatalogUpdates :
                                     UpdateProduct(p, tenant, id, updates, CatalogBudget)
        \/ Ready /\ \E tenant \in Scopes, id \in ProductIds \cup {MissingProductId},
                                   stock \in Stocks :
                                     UpdateStock(p, tenant, id, stock, CatalogBudget)
        \/ Ready /\ SaveProduct(p)
        \/ Ready /\ SaveProductInsert(p)
        \/ Return(p)
    \/ Respond

SpecCatalog == Init /\ [][OpenNext \/ CatalogNext]_vars

\* the seed, users created under a tenant, logins, password updates and the
\* users the administrator creates
UserNext ==
    \/ Ready /\ Seed
    \/ Ready /\ \E tenant \in Tenants :
                  UserRepositoryCreate(tenant, TenantUser("kasir", <<"admin123">>), CatalogBudget)
    \/ \E username \in Usernames, password \in Passwords : Login(username, password)
    \/ \E p \in Procs :
          \/ Ready /\ \E token \in tokens, current \in Passwords, new \in Passwords :
                                     UpdatePassword(p, token, current, new, CatalogBudget)
          \/ Ready /\ SaveUser(p)
          \/ Ready /\ SaveUserInsert(p)
          \/ Ready /\ \E body \in UserBodies : AdminCreateUser(p, body, CatalogBudget)
          \/ AdminCreateUserInsert(p)
          \/ Return(p)
    \/ Respond

\* sales, product updates, logins and user updates
SpecTenantRows == Init /\ [][OpenNext \/ UnitSaleNext \/ ProductNext \/ UserNext]_vars

\* ----------------------------------------------------------------- router
\* the handlers registered on the group /admin and on the group /api
AdminRoutes == {"CreateTenant", "ListTenants", "GetTenant", "UpdateTenant", "CreateUser"}
ApiRoutes ==
    {"GetProfile", "GetMyTenant", "UpdatePassword", "ListProducts", "CreateProduct",
     "GetProduct", "UpdateProduct", "UpdateStock", "GetUploadURL",
     "GetProductImageBytes", "UploadProductImage", "CreateTransaction",
     "ListTransactions", "GetTransaction", "GetSalesReport"}

RouteGroupAllApi(route) == "api"
RouteGroup(route) == IF route \in AdminRoutes THEN "admin" ELSE "api"

\* the Authorization header of a request: none, Basic with credentials that are
\* or are not the configured admin's, or Bearer with a JWT that Login issued
\* (signed with the server's secret) or with claims signed by someone else
Credentials ==
    {[class |-> "none", admin |-> FALSE, signed |-> FALSE, claims |-> Claims(0, NoUser)]}
    \cup {[class |-> "basic", admin |-> a, signed |-> FALSE, claims |-> Claims(0, NoUser)] :
              a \in BOOLEAN}
    \cup {[class |-> "bearer", admin |-> FALSE, signed |-> TRUE, claims |-> t] : t \in tokens}
    \cup {[class |-> "bearer", admin |-> FALSE, signed |-> FALSE,
            claims |-> Claims(id, [tenant_id |-> tenant])] :
              id \in UserIds, tenant \in Tenants}

\* middleware.BasicAuth with the validator of AdminAuth: the header must be Basic
\* and carry the configured admin username and password
AdminAuth(cred) == cred.class = "basic" /\ cred.admin

\* echojwt with SigningKey: the header must be Bearer with a token signed with
\* the server's secret
JWTAuth(cred) == cred.class = "bearer" /\ cred.signed

\* a request for a route passes the middleware of the route's group and reaches
\* the handler, or is answered 401 by the middleware
Serve(route, cred) ==
    /\ Quiescent
    /\ LET group == RouteGroup(route)
           passed == IF group = "admin" THEN AdminAuth(cred) ELSE JWTAuth(cred) IN
       lastRead' = [op |-> route, cred |-> cred,
                    tenant |-> IF passed /\ group = "api" THEN ContextTenant(cred.claims)
                               ELSE NoTenant,
                    ids |-> <<>>, total |-> 0,
                    err |-> IF passed THEN "none" ELSE "unauthorized"]
    /\ UNCHANGED <<catalog, sales, accounts, sqlMode, call, productOps>>

RouterNext ==
    \/ NoResponsePending /\ Seed
    \/ \E username \in Usernames, password \in Passwords : Login(username, password)
    \/ \E route \in AdminRoutes \cup ApiRoutes, cred \in Credentials : Serve(route, cred)
    \/ Respond

SpecRouter == Init /\ [][RouterNext]_vars

\* ------------------------------------------------------- one sale at a time
SequentialNext ==
    \E p \in Procs :
        \/ Ready /\ Alone(p) /\ CreateTransactionOn(p, Lines, {0})
        \/ Return(p)

SpecSequential == Init /\ [][OpenNext \/ SequentialNext]_vars

\* The handler validates the request with validator.Struct; the tag on Items is
\* "required,min=1" without dive, so the tags of TransactionItemRequest are not
\* applied to the elements and a line reaches the service with any quantity.
AnyQuantities == {0 - 1, 0} \cup Quantities
AnyLines == [product_id : ProductIds, quantity : AnyQuantities]

AnyQuantityNext ==
    \E p \in Procs :
        \/ Ready /\ Alone(p) /\ CreateTransactionOn(p, AnyLines, {0})
        \/ Return(p)

SpecAnyQuantity == Init /\ [][OpenNext \/ AnyQuantityNext]_vars

\* ------------------------------------------------------------ properties
Committed == {transactions[i] : i \in 1..Len(transactions)}

InTxFailures ==
    {"product_not_found", "insufficient_stock", "total_mismatch", "persistence_failure"}

\* C1: in every reachable state every product's stock is >= 0, whatever
\* sequence or interleaving of CreateTransaction calls has run.
Thm_C1 == \A id \in DOMAIN products : products[id].stock >= 0

\* a sale has committed and sold a product out
Wit_C1 ==
    \E t \in Committed : \E id \in ProductIds :
        QuantityOf(t.items, id) > 0 /\ products[id].stock = 0

\* C2: two sales of the same product that were in flight together never both
\* commit when their combined quantity exceeds the stock available when the
\* first of them commits.
CE_C2 ==
    \A i, j \in 1..Len(transactions) :
        (i < j /\ transactions[i].id \in transactions[j].overlapped) =>
            \A id \in ProductIds :
                (QuantityOf(transactions[i].items, id) > 0
                 /\ QuantityOf(transactions[j].items, id) > 0) =>
                    QuantityOf(transactions[i].items, id)
                    + QuantityOf(transactions[j].items, id)
                        <= transactions[i].stockBefore[id]

\* C3: every committed transaction has
\* total_price = (sum of price * quantity over its items) * (1 - discount/100).
\* sum * (1 - discount/100) for a sum in hundredths and a discount in hundredths
\* of a percent: the amount in hundredths, and whether it is a whole number of
\* them
Discounted(sum, discount) ==
    LET whole == sum \div 10000
        rest == sum % 10000
    IN [amount |-> whole * (10000 - discount) + (rest * (10000 - discount)) \div 10000,
        exact |-> (rest * (10000 - discount)) % 10000 = 0]

CE_C3 ==
    \A t \in Committed :
        LET due == Discounted(SumItems(t.items), t.discount)
        IN due.exact /\ t.total_price = due.amount

\* C4: a CreateTransaction that fails inside its database transaction has
\* changed no committed table: no stock decrement and no row of it is visible.
Thm_C4 ==
    \A p \in Procs :
        (call[p].pc = "done" /\ call[p].result \in InTxFailures) => ~call[p].dbChanged

\* a call failed on a later line or step after a stock update of an earlier line
Wit_C4 ==
    \E p \in Procs :
        /\ call[p].pc = "done"
        /\ call[p].result \in {"product_not_found", "insufficient_stock",
                               "persistence_failure"}
        /\ call[p].staged

\* C5: a request whose total_price differs from the computed discounted total
\* ends in total_mismatch, commits no transaction and changes no stock.
Thm_C5 ==
    /\ \A p \in Procs :
          call[p].pc \in {"create", "create_items", "commit"} =>
              call[p].provided = call[p].calculatedTotal
    /\ \A t \in Committed : t.provided = t.calculated
    /\ \A p \in Procs :
          (call[p].pc = "done" /\ call[p].result = "total_mismatch") =>
              ~call[p].dbChanged

\* a call ended in total_mismatch after its stock updates had been issued
Wit_C5 ==
    \E p \in Procs :
        /\ call[p].pc = "done"
        /\ call[p].result = "total_mismatch"
        /\ call[p].staged
        /\ \A id \in DOMAIN products : products[id].stock = Catalogue[id].stock

\* C6: whenever the database transaction of CreateTransaction has committed,
\* the call returns the re-read transaction, never an error.  A finished
\* CreateTransaction call is one that has read a request line; it has changed
\* the committed tables exactly when its database transaction committed.
CE_C6 ==
    \A p \in Procs :
        (call[p].pc = "done" /\ call[p].line.n > 0 /\ call[p].dbChanged) =>
            call[p].result = "ok"

\* C7: a transaction committed under tenant T is stored with tenant reference T
\* and a GetTransaction scoped to T returns it.
CE_C7 ==
    \A t \in Committed :
        t.createdUnder \in Tenants =>
            /\ t.tenant_id = t.createdUnder
            /\ TransactionGetByID(t.createdUnder, t.id) # {}

\* C8: a product or transaction created under tenant A is never returned by
\* GetProduct, ListProducts, GetTransaction or ListTransactions scoped to another
\* tenant B, nor counted in their totals, after any sequence of operations.
OwnProducts(tenant) == {id \in DOMAIN products : products[id].createdUnder = tenant}
OwnTransactions(tenant) == {t.id : t \in {r \in Committed : r.createdUnder = tenant}}
Elements(seq) == {seq[i] : i \in 1..Len(seq)}

Thm_C8 ==
    /\ \A tenant \in Tenants :
          /\ \A id \in DOMAIN products :
                ProductVisible(tenant, products[id]) => products[id].createdUnder = tenant
          /\ ProductCount(tenant) <= Cardinality(OwnProducts(tenant))
          /\ \A t \in Committed :
                /\ TransactionVisible(tenant, t) => t.createdUnder = tenant
                /\ \A u \in TransactionGetByID(tenant, t.id) : u.createdUnder = tenant
          /\ TransactionCount(tenant) <= Cardinality(OwnTransactions(tenant))
    /\ \A p \in Procs :
          LET r == call[p].read IN
          /\ (r.op = "ListProducts" /\ r.tenant \in Tenants) =>
                r.total <= Cardinality(OwnProducts(r.tenant))
          /\ (r.op = "ListTransactions" /\ r.tenant \in Tenants) =>
                r.total <= Cardinality(OwnTransactions(r.tenant))
    /\ (lastRead.op \in {"GetProduct", "ListProducts"} /\ lastRead.tenant \in Tenants) =>
          /\ Elements(lastRead.ids) \subseteq OwnProducts(lastRead.tenant)
          /\ lastRead.total <= Cardinality(OwnProducts(lastRead.tenant))
    /\ (lastRead.op \in {"GetTransaction", "ListTransactions"}
        /\ lastRead.tenant \in Tenants) =>
          /\ Elements(lastRead.ids) \subseteq OwnTransactions(lastRead.tenant)
          /\ lastRead.total <= Cardinality(OwnTransactions(lastRead.tenant))

\* the second tenant has listed the transactions while a sale of the first
\* tenant is committed, and got none and a total of 0; its list of the
\* products, which is between its two statements, has counted its own product
\* and none of the first tenant's price list
Wit_C8 ==
    /\ lastRead.op = "ListTransactions"
    /\ lastRead.tenant = 2
    /\ lastRead.ids = <<>>
    /\ lastRead.total = 0
    /\ OwnTransactions(1) # {}
    /\ \E p \in Procs :
          /\ call[p].pc = "find_products"
          /\ call[p].read.tenant = 2
          /\ call[p].read.total = 1
    /\ OwnProducts(2) = {NewProductId}
    /\ Cardinality(OwnProducts(1)) = Len(Catalogue)

\* C9: an update or a delete issued under tenant B against the id of a row of
\* tenant A answers not-found, never success.
CE_C9 ==
    /\ (/\ lastRead.op \in {"ProductRepositoryDelete", "ProductRepositoryUpdateStock"}
        /\ lastRead.tenant \in Tenants
        /\ lastRead.ids[1] \in DOMAIN products
        /\ products[lastRead.ids[1]].tenant_id \in Tenants \ {lastRead.tenant})
          => lastRead.err = "not_found"
    /\ (/\ lastRead.op \in {"TransactionRepositoryDelete", "TransactionRepositoryUpdate"}
        /\ lastRead.tenant \in Tenants
        /\ \E t \in Committed :
              t.id = lastRead.ids[1] /\ t.createdUnder \in Tenants \ {lastRead.tenant})
          => lastRead.err = "not_found"

\* C10: a tenant-bound call made with no tenant id in its context fails with a
\* missing-tenant error: it reads no row under a replaced filter and writes nothing.
CE_C10 ==
    /\ \A p \in Procs :
          call[p].tenant = NoTenant =>
              call[p].pc \notin {"update", "create", "create_items", "commit", "reread", "save",
                                  "upsert", "find_products", "find_transactions"}
    /\ \A t \in Committed : t.createdUnder # NoTenant
    /\ (lastRead.op \in {"GetProduct", "ListProducts", "GetTransaction", "ListTransactions"}
        /\ lastRead.tenant = NoTenant) => lastRead.err = "tenant_id_not_found"

\* C11: a CreateTransaction scoped to tenant B that reads a line whose product id
\* is missing or belongs to another tenant ends in product_not_found and has
\* changed no stock; no call stages or commits a line on a product that is not
\* its tenant's.
Thm_C11 ==
    /\ \A p \in Procs :
          LET c == call[p] IN
          c.tenant \in Tenants =>
            /\ (c.pc = "done" /\ c.line.n > 0
                 /\ c.line.product_id \notin OwnProducts(c.tenant)) =>
                    (c.result = "product_not_found" /\ ~c.dbChanged)
            /\ \A i \in 1..Len(c.items) :
                    c.items[i].product_id \in OwnProducts(c.tenant)
            /\ DOMAIN c.writes \subseteq OwnProducts(c.tenant)
    /\ \A t \in Committed :
          t.createdUnder \in Tenants =>
            \A i \in 1..Len(t.items) :
                t.items[i].product_id \in OwnProducts(t.createdUnder)

\* the second tenant has named a product of the first tenant's price list:
\* the call ended in product_not_found with every stock as it was
Wit_C11 ==
    \E p \in Procs :
        /\ call[p].pc = "done"
        /\ call[p].tenant = 2
        /\ call[p].result = "product_not_found"
        /\ call[p].line.product_id \in OwnProducts(1)
        /\ ~call[p].dbChanged
        /\ \A id \in DOMAIN products : products[id].stock = Catalogue[id].stock

\* C12: run alone, a CreateTransaction of a tenant for one line of its product
\* with quantity q, no discount and total_price = price * q succeeds iff q <= stock;
\* on success the stock has decreased by exactly q, otherwise the call fails with
\* insufficient stock and the stock is as it was.
CE_C12 ==
    \A p \in Procs :
        LET c == call[p] IN
        (/\ c.pc = "done"
         /\ c.line.n = 1
         /\ c.tenant \in Tenants
         /\ c.line.product_id \in OwnProducts(c.tenant)
         /\ c.result \notin {"total_mismatch", "persistence_failure"}) =>
            /\ (c.result = "ok") <=> (c.line.quantity <= c.line.stock)
            /\ c.result = "ok" =>
                  products[c.line.product_id].stock = c.line.stock - c.line.quantity
            /\ c.result # "ok" =>
                  /\ c.result = "insufficient_stock"
                  /\ products[c.line.product_id].stock = c.line.stock

\* C13: the price of a transaction item is the sale price of its product at the
\* moment the sale read it, and a step that changes a product's sale price leaves
\* the price of every committed item and the total_price of every committed
\* transaction as they were.
Thm_C13 ==
    [][/\ \A p \in Procs :
             (call[p].pc = "loop" /\ call'[p].pc = "update") =>
                 LET it == call'[p].items[Len(call'[p].items)] IN
                 it.price = FromDecimal(products[it.product_id].harga_jual)
       /\ (\E id \in DOMAIN products :
               id \in DOMAIN products'
               /\ products'[id].harga_jual # products[id].harga_jual) =>
             /\ Len(transactions') = Len(transactions)
             /\ \A i \in 1..Len(transactions) :
                   /\ transactions'[i].total_price = transactions[i].total_price
                   /\ Len(transactions'[i].items) = Len(transactions[i].items)
                   /\ \A k \in 1..Len(transactions[i].items) :
                         transactions'[i].items[k].price = transactions[i].items[k].price
      ]_vars

\* an UpdateProduct has just repriced a product of which a sale at the old price
\* is committed: the item still carries the old price
Wit_C13 ==
    \E p \in Procs : \E t \in Committed : \E k \in 1..Len(t.items) :
        /\ call[p].pc = "done"
        /\ call[p].result = "ok"
        /\ call[p].line.n = 0
        /\ call[p].dbChanged
        /\ products[t.items[k].product_id].harga_jual \in Prices
        /\ t.items[k].price = Catalogue[t.items[k].product_id].harga_jual
        /\ t.total_price = SumItems(t.items)

\* C14: a committed transaction and its items are created once and never changed
\* or removed by any operation of the transaction and product services: every
\* step keeps the committed rows as they are and a new row has a fresh id.
Thm_C14 ==
    [][/\ Len(transactions') >= Len(transactions)
       /\ \A i \in 1..Len(transactions) : transactions'[i] = transactions[i]
       /\ \A j \in (Len(transactions) + 1)..Len(transactions') :
             \A i \in 1..Len(transactions) : transactions'[j].id # transactions[i].id
      ]_vars

\* two sales are committed and a product update has been saved after them
Wit_C14 ==
    /\ Len(transactions) = MaxTx
    /\ transactions[1].id # transactions[2].id
    /\ \E p \in Procs :
          call[p].pc = "done" /\ call[p].result = "ok" /\ call[p].line.n = 0
          /\ call[p].dbChanged

\* C15: every committed transaction item has quantity >= 1, and no sale leaves a
\* product with more stock than it had.
CE_C15 ==
    /\ \A t \in Committed : \A k \in 1..Len(t.items) : t.items[k].quantity >= 1
    /\ \A t \in Committed : \A id \in DOMAIN products :
          products[id].stock <= t.stockBefore[id]

\* C16: every committed transaction has a discount within 0..100 and a
\* total_price >= 0.
CE_C16 ==
    \A t \in Committed :
        /\ 0 <= t.discount
        /\ t.discount <= 10000
        /\ t.total_price >= 0

\* C17: in every reachable state no two products of the same tenant have the
\* same SKU, whatever CreateProduct and UpdateProduct calls have run or are
\* running.
Thm_C17 ==
    \A a, b \in DOMAIN products :
        (a # b /\ products[a].tenant_id \in Tenants
         /\ products[a].tenant_id = products[b].tenant_id) =>
            products[a].sku # products[b].sku

\* a CreateProduct found its SKU free, and by the time it inserted the SKU had
\* been taken under its own tenant by a concurrent call: the insert was refused
Wit_C17 ==
    \E p \in Procs :
        /\ call[p].pc = "done"
        /\ call[p].result = "persistence_failure"
        /\ call[p].product.id = 0
        /\ call[p].skuOwners = {}
        /\ \E k \in DOMAIN products :
              /\ products[k].sku = call[p].product.sku
              /\ products[k].tenant_id = call[p].tenant

\* C18: CreateProduct under an existing tenant T fails with a duplicate-SKU
\* error, creating nothing, exactly when the SKU already exists for T; a SKU that
\* exists only under another tenant does not make the create fail.
CE_C18 ==
    \A p \in Procs :
        LET c == call[p] IN
        (c.pc = "done" /\ c.product.id = 0 /\ c.product.sku # "" /\ c.tenant \in tenants) =>
            /\ (c.result = "duplicate_sku") <=> (c.tenant \in c.skuOwners)
            /\ c.result = "duplicate_sku" => ~c.dbChanged
            /\ (c.skuOwners # {} /\ c.tenant \notin c.skuOwners) => c.result = "created"

Thm_C20 ==
    (lastRead.op \in AdminRoutes \cup ApiRoutes /\ lastRead.err = "none") =>
        /\ lastRead.op \in AdminRoutes =>
              (lastRead.cred.class = "basic" /\ lastRead.cred.admin)
        /\ lastRead.op \in ApiRoutes =>
              (/\ lastRead.cred.class = "bearer"
               /\ lastRead.cred.signed
               /\ lastRead.cred.claims \in tokens)

\* a JWT the server issued at a login was presented alone on the
\* tenant-creation route and was answered 401
Wit_C20 ==
    /\ lastRead.op = "CreateTenant"
    /\ lastRead.cred.class = "bearer"
    /\ lastRead.cred.signed
    /\ lastRead.cred.claims \in tokens
    /\ lastRead.err = "unauthorized"

\* C21: for every id of the used range, decoding the token of the id gives the
\* id back without error, and no other id of the range has the same token.
Thm_C21 ==
    lastRead.op = "HashID" =>
        /\ DecodeHashID(lastRead.hash) = [id |-> lastRead.id, err |-> "none"]
        /\ \A y \in HashedIds : y # lastRead.id => HashID(y) # lastRead.hash

\* an id that takes more than one digit of the shuffled alphabet was encoded
Wit_C21 ==
    /\ lastRead.op = "HashID"
    /\ lastRead.id = MaxHashedId
    /\ Len(lastRead.hash) = minLength

\* the tokens HashID makes for the ids of the used range
IdTokens == {HashID(x) : x \in HashedIds}

\* C22: DecodeHashID accepts a string only when it is the token HashID makes
\* for the id it returns; every other string (malformed, standing for more
\* than one value, made with another salt) is answered with an error.
Thm_C22 ==
    lastRead.op = "DecodeHashID" =>
        /\ lastRead.err = "none" => HashID(lastRead.id) = lastRead.hash
        /\ lastRead.hash \notin IdTokens => lastRead.err # "none"

\* a token that stands for two values was offered and was refused
Wit_C22 ==
    /\ lastRead.op = "DecodeHashID"
    /\ lastRead.hash = Encode(newHashIDs, <<1, 2>>).hash
    /\ DecodeWithError(newHashIDs, lastRead.hash).ids = <<1, 2>>
    /\ lastRead.err = "invalid hash"

\* whether text p starts with text q
HasPrefix(p, q) == Len(p) >= Len(q) /\ SubSeq(p, 1, Len(q)) = q

\* C23: every storage operation under tenant T sends the store a key that is
\* T's token or lies under T's token followed by "/", whatever key the caller
\* gave; no other tenant can be made to send the same key; an operation
\* without tenant fails and sends nothing.
CE_C23 ==
    lastRead.op \in StorageOps =>
        /\ lastRead.tenant = NoTenant => (lastRead.sent = <<>> /\ lastRead.err # "none")
        /\ lastRead.tenant # NoTenant =>
              /\ lastRead.sent # <<>>
              /\ \/ lastRead.sent[1] = HashID(lastRead.tenant)
                 \/ HasPrefix(lastRead.sent[1], HashID(lastRead.tenant) \o <<"/">>)
              /\ \A other \in Tenants \ {lastRead.tenant}, key \in StorageKeys :
                    getTenantKey(other, key).key # lastRead.sent[1]

\* the transactions committed for a tenant with a creation time in a window,
\* and the sum of their quantities or of their price * quantity
SalesOf(tenant, startDate, endDate) ==
    {i \in 1..Len(transactions) :
        /\ tenant # NoTenant
        /\ transactions[i].createdUnder = tenant
        /\ transactions[i].created_at >= startDate
        /\ transactions[i].created_at <= endDate}

RECURSIVE SumProducts(_, _, _)
SumProducts(rows, ids, priced) ==
    IF ids = {} THEN 0
    ELSE LET id == CHOOSE x \in ids : TRUE
         IN  SumOver(rows, id, priced) + SumProducts(rows, ids \ {id}, priced)

\* C24: the sales report of tenant T over a window counts exactly the items of
\* the transactions committed for T with a creation time in the window:
\* totalRevenue is the sum of price * quantity over them, itemsSold the sum of
\* their quantities, and the details are ordered by revenue, largest first.
CE_C24 ==
    (lastRead.op = "GetSalesReport" /\ lastRead.err # "bad_request") =>
        LET w == lastRead.queried[1]
            rows == SalesOf(lastRead.tenant, w.startDate, w.endDate) IN
        /\ lastRead.err = "none"
        /\ lastRead.totalRevenue = FromDecimal(SumProducts(rows, ProductIds, TRUE))
        /\ lastRead.itemsSold = SumProducts(rows, ProductIds, FALSE)
        /\ \A i \in 1..(Len(lastRead.details) - 1) :
              ~FLess(lastRead.details[i].total_price, lastRead.details[i + 1].total_price)

\* C25: averageTransaction is totalRevenue divided by the number of distinct
\* products among the items the report counts, not by the number of
\* transactions, and is 0 when the report counts no item.
Thm_C25 ==
    lastRead.op = "reportService.GetSalesReport" =>
        LET sold == {lastRead.details[i].product_id : i \in 1..Len(lastRead.details)} IN
        /\ lastRead.totalRevenue = TotalRevenue(lastRead.details)
        /\ lastRead.averageTransaction =
              (IF sold = {} THEN Zero
               ELSE FDiv(lastRead.totalRevenue, Float(Cardinality(sold))))

\* a report counted several units of one product: the revenue was divided by
\* one, whatever the number of transactions that sold them
Wit_C25 ==
    /\ lastRead.op = "reportService.GetSalesReport"
    /\ Len(lastRead.details) = 1
    /\ lastRead.itemsSold > 2
    /\ lastRead.averageTransaction = lastRead.totalRevenue
    /\ Positive(lastRead.totalRevenue)

\* C26: a report request whose start date is after its end date is refused
\* and no query is made; for an accepted request the end bound of the query is
\* the last second of the end date's day, so that every transaction created on
\* the end date lies inside the bounds.
Thm_C26 ==
    lastRead.op = "GetSalesReport" =>
        /\ (/\ lastRead.start_date # NoDate
            /\ lastRead.end_date # NoDate
            /\ lastRead.start_date > lastRead.end_date) =>
               (lastRead.err = "bad_request" /\ lastRead.queried = <<>>)
        /\ lastRead.err # "bad_request" =>
              /\ lastRead.start_date <= lastRead.end_date
              /\ lastRead.queried[1].endDate = Midnight(lastRead.end_date + 1) - 1
              /\ \A i \in 1..Len(transactions) :
                    (/\ transactions[i].created_at >= Midnight(lastRead.end_date)
                     /\ transactions[i].created_at < Midnight(lastRead.end_date + 1)) =>
                        /\ transactions[i].created_at >= lastRead.queried[1].startDate
                        /\ transactions[i].created_at <= lastRead.queried[1].endDate

\* a request was accepted whose end date is the day on whose last second a
\* sale was committed, and the query was made
Wit_C26 ==
    /\ lastRead.op = "GetSalesReport"
    /\ lastRead.err # "bad_request"
    /\ lastRead.queried # <<>>
    /\ \E i \in 1..Len(transactions) :
          transactions[i].created_at = Midnight(lastRead.end_date + 1) - 1

\* C27 as stated: the repository is called with page >= 1 and 1 <= limit <= 100,
\* an out-of-range value having been moved to the nearest bound and an
\* in-range value passed unchanged.
CE_C27 ==
    lastRead.op \in {"ListProducts", "ListTransactions"} =>
        /\ lastRead.query.page = (IF lastRead.request.page < 1 THEN 1
                                  ELSE lastRead.request.page)
        /\ lastRead.query.limit = (IF lastRead.request.limit < 1 THEN 1
                                   ELSE IF lastRead.request.limit > MaxListLimit
                                   THEN MaxListLimit
                                   ELSE lastRead.request.limit)

\* C27, amended: the repository is called with page >= 1 and 1 <= limit <= 100;
\* a page below 1 becomes 1, a limit below 1 or above 100 becomes the default
\* 10, and in-range values are passed unchanged.
Thm_C27 ==
    lastRead.op \in {"ListProducts", "ListTransactions"} =>
        /\ lastRead.query.page >= 1
        /\ lastRead.query.limit >= 1
        /\ lastRead.query.limit <= MaxListLimit
        /\ lastRead.query.page = (IF lastRead.request.page < 1 THEN 1
                                  ELSE lastRead.request.page)
        /\ lastRead.query.limit = (IF lastRead.request.limit \in 1..MaxListLimit
                                   THEN lastRead.request.limit
                                   ELSE DefaultListLimit)

\* transactions were listed with a page below 1 and a limit above 100
Wit_C27 ==
    /\ lastRead.op = "ListTransactions"
    /\ lastRead.request.page < 1
    /\ lastRead.request.limit > MaxListLimit
    /\ lastRead.query = [page |-> 1, limit |-> DefaultListLimit]

\* C28: a CreateTransaction call with no items ends with an error in one step
\* from idle, before the database transaction is opened: it has read no
\* product, staged no write, and the tables and the id counters are as before.
Thm_C28 ==
    [][\A p \in Procs :
          (call'[p].pc = "done" /\ call'[p].result = "empty_items"
              /\ call[p].pc # "done") =>
             /\ call[p].pc = "idle"
             /\ call'[p].line = NoLine
             /\ ~call'[p].staged
             /\ ~call'[p].dbChanged
             /\ products' = products
             /\ transactions' = transactions
             /\ nextID' = nextID
             /\ nextItemID' = nextItemID
             /\ nextProductID' = nextProductID
             /\ \A q \in Procs \ {p} : call'[q] = call[q]
      ]_vars

\* a call without items was refused while another call was inside its
\* database transaction
Wit_C28 ==
    \E p \in Procs, q \in Procs :
        /\ call[p].pc = "done"
        /\ call[p].result = "empty_items"
        /\ call[q].pc \in InTx
        /\ call[q].staged

\* the units of a product in the items of the committed transactions
RECURSIVE SoldIn(_, _)
SoldIn(rows, id) ==
    IF rows = <<>> THEN 0
    ELSE QuantityOf(Head(rows).items, id) + SoldIn(Tail(rows), id)

\* C29: stock conservation. With stock changed by CreateTransaction only, for
\* every product the initial stock minus the current stock is the number of
\* units of the product in the items of all committed transactions.
CE_C29 ==
    \A id \in DOMAIN products :
        Catalogue[id].stock - products[id].stock = SoldIn(transactions, id)

\* C30: an UpdateProduct call that changes no stock field leaves every
\* product's stock as the sales set it: the write that ends the call does not
\* change the stock of any row, whatever sales committed since the call read
\* the row.
CE_C30 ==
    [][\A p \in Procs :
          (call[p].pc \in {"save", "upsert"} /\ call'[p].pc = "done") =>
              \A id \in DOMAIN products :
                  products'[id].stock = products[id].stock
      ]_vars
====
